---- MODULE Spec2Model ----
(***************************************************************************)
(* Content-addressable collector cache of the Antora extension             *)
(* extensions/collector-cache-extension.js: the decision phase             *)
(* (contentAggregated), the external collector run, and the commit phase   *)
(* (beforePublish), over a model of the file system they read and write.   *)
(***************************************************************************)
EXTENDS Integers, Sequences, FiniteSets, TLC

(***************************************************************************)
(* Bounds of the model.                                                    *)
(***************************************************************************)
\* number of builds (runs of the site generator) in one behaviour
MaxBuilds == 2
\* number of changes made by the environment (edits of sources, removal or
\* corruption of cache files, failing file operations) in one behaviour
MaxEdits == 2
\* the same for the playbooks with two entries
MaxBuildsTwo == 2
MaxEditsTwo == 1
\* the same for the playbooks with an entry that lacks a required field
MaxBuildsInvalid == 2
MaxEditsInvalid == 1
\* the same for the behaviours in which sources change while the commands run
MaxBuildsRun == 2
MaxEditsRun == 1
\* the same for the behaviours that start from a cache directory that holds
\* a pointer and some output tree
MaxBuildsStore == 1
MaxEditsStore == 1
\* runs of the iBOM tools in one behaviour
MaxRuns == 3
\* length of an iBOM file before any customization, in words
MaxHtml == 2
\* length of the lists of declared sources the properties of the fingerprint
\* are checked for
MaxSources == 2

(***************************************************************************)
(* The playbook: origins, their collector-cache configuration, the entries. *)
(***************************************************************************)
Origins == {"o1", "o2"}
Units == {"u1", "u2"}
\* order in which contentAggregate / origins / entries are iterated
UnitOrder == <<"u1", "u2">>

DEFAULT_CACHE_DIR == ".cache/antora/collector-cache"
CustomCacheDir == "build/collector-cache"
\* cacheConfig.cacheDir: "" stands for a configuration that does not set it
CacheDirSettings == {"", CustomCacheDir}

SrcPaths == {"a.txt", "b.txt"}
\* lexicographic order of the source paths, as Array.prototype.sort gives it
PathRank == [p \in SrcPaths |-> IF p = "a.txt" THEN 1 ELSE 2]
\* what a declared source path holds in the worktree
Absent == "absent"
Unreadable == "unreadable"
Contents == {"x", "y"}

OutDir == <<"out">>
SubDir == <<"out", "sub">>
\* order in which readdirSync lists the names of a directory
NameRank == [n \in {"f", "g", "sub", "out"} |->
               CASE n = "f" -> 1 [] n = "g" -> 2 [] n = "out" -> 3 [] n = "sub" -> 4]

VARIABLES
    limit,        \* [builds, edits]: the bounds of this behaviour (fixed)
    origin,       \* origin -> [kind, hasConfig, component, cacheDir] (the playbook, fixed)
    unit,         \* unit -> [origin, key, sources, outputDir, scan] (fixed)
    env,          \* process.env of the running build: [force, dryRun]
    wt,           \* origin -> worktree: [exists, src, tree]
    ptrs,         \* pointer files under {cache-dir}/hashes
    outs,         \* nodes under {cache-dir}/outputs
    pc,           \* position of the build process
    di,           \* index of the next entry the decision phase evaluates
    collector,    \* origin -> origin.descriptor.ext.collector
    cacheEntries, \* the entries tracked for the commit phase
    decision,     \* unit -> what the decision phase of this build decided
    ci,           \* index of the entry the commit phase is at
    stage,        \* position inside the commit of one entry
    plan,         \* the directory entries copyDirectory still has to copy
    finished,     \* history: the trees copied by commits that ran to their end
    builds,       \* number of builds started
    edits,        \* number of changes made by the environment
    htmlFiles,    \* iBOM tools: path -> contents of the file on disk
    catalog,      \* iBOM tools: path -> contents of the attachment in the content catalog
    runs,         \* iBOM tools: tool -> number of its runs so far
    currentHashes, \* hash-record version: the hash map of the sources as they are
    cachedHashes,  \* hash-record version: what the hash cache file holds
    matched        \* hash-record version: what the decision found

\* the state of the collector cache, and the state of the iBOM tools
cacheVars == <<limit, origin, unit, env, wt, ptrs, outs, pc, di, collector, cacheEntries,
               decision, ci, stage, plan, finished, builds, edits>>
ibomVars == <<htmlFiles, catalog, runs>>
recordVars == <<currentHashes, cachedHashes, matched>>
vars == <<cacheVars, ibomVars, recordVars>>

(***************************************************************************)
(* File-system trees: a tree is a set of nodes [path, kind, data]; a path  *)
(* is the sequence of names below the root of the tree.                    *)
(***************************************************************************)
IsPrefix(p, q) == Len(p) <= Len(q) /\ SubSeq(q, 1, Len(p)) = p

DirNode(p) == [path |-> p, kind |-> "dir", data |-> [by |-> "", gen |-> 0]]
FileNode(p, d) == [path |-> p, kind |-> "file", data |-> d]

\* fs.existsSync
ExistsSync(T, p) == \E n \in T : n.path = p
\* fs.statSync(p).isDirectory()
IsDirectory(T, p) == \E n \in T : n.path = p /\ n.kind = "dir"
\* fs.readdirSync(p, { withFileTypes: true }), as a set
Readdir(T, p) == {n \in T : Len(n.path) = Len(p) + 1 /\ IsPrefix(p, n.path)}
\* fs.rmSync(p, { recursive: true, force: true })
RmSync(T, p) == {n \in T : ~IsPrefix(p, n.path)}
\* fs.mkdirSync(p, { recursive: true })
MkdirSync(T, p) ==
    T \cup {DirNode(SubSeq(p, 1, k)) : k \in {j \in 1..Len(p) : ~ExistsSync(T, SubSeq(p, 1, j))}}
\* fs.copyFileSync(src, dest): dest is overwritten
CopyFileSync(T, n) == {m \in T : m.path # n.path} \cup {n}

\* the entries of a directory in the order readdirSync lists them
Listing(S) ==
    CHOOSE s \in [1..Cardinality(S) -> S] :
        /\ \A i, j \in 1..Cardinality(S) : i # j => s[i] # s[j]
        /\ \A i, j \in 1..Cardinality(S) :
              i < j => NameRank[s[i].path[Len(s[i].path)]] < NameRank[s[j].path[Len(s[j].path)]]

(***************************************************************************)
(* Hashing.  SHA-256 is modelled as a collision-free constructor; a hex     *)
(* digest has a fixed width, so the join of a list of digests is the list.  *)
(***************************************************************************)
Sha256(bytes) == <<"sha256", bytes>>
\* the value of a contentHash that was never computed (null / undefined)
NoHash == <<"undefined", <<>>>>
\* a JavaScript object with string keys: its keys in insertion order, and the
\* value of each key
EmptyHashes == [keys |-> <<>>, val |-> [p \in {} |-> Sha256("x")]]

\* obj[k] = v
ObjectSet(obj, k, v) ==
    [keys |-> IF k \in DOMAIN obj.val THEN obj.keys ELSE Append(obj.keys, k),
     val |-> [p \in DOMAIN obj.val \cup {k} |-> IF p = k THEN v ELSE obj.val[p]]]

\* Object.keys(obj)
ObjectKeys(obj) == obj.keys

\* what path.join(worktree, source) holds
FileAt(w, source) == IF w.exists THEN w.src[source] ELSE Absent

\* computeHashes: status "null" is the null it returns for a missing file,
\* "throws" the exception of readFileSync, "ok" the hashes object
RECURSIVE ComputeHashesFrom(_, _, _)
ComputeHashesFrom(w, sources, acc) ==
    IF sources = <<>> THEN [status |-> "ok", hashes |-> acc]
    ELSE LET source == Head(sources) IN
         IF FileAt(w, source) = Absent THEN [status |-> "null", hashes |-> EmptyHashes]
         ELSE IF FileAt(w, source) = Unreadable THEN [status |-> "throws", hashes |-> EmptyHashes]
         ELSE ComputeHashesFrom(w, Tail(sources),
                                ObjectSet(acc, source, Sha256(FileAt(w, source))))

\* faulty variant of computeHashes: a missing file is left out of the hashes
computeHashesSkippingMissing(w, sources) ==
    LET found == SelectSeq(sources, LAMBDA source : FileAt(w, source) \in Contents) IN
    [status |-> "ok",
     hashes |-> [keys |-> found,
                 val |-> [p \in {found[i] : i \in DOMAIN found} |-> Sha256(FileAt(w, p))]]]

computeHashes(w, sources) == ComputeHashesFrom(w, sources, EmptyHashes)

\* keys.sort(): the keys in the order of their UTF-16 code units
Sort(keys) ==
    CHOOSE s \in [DOMAIN keys -> {keys[i] : i \in DOMAIN keys}] :
        /\ \A i, j \in DOMAIN s : i # j => s[i] # s[j]
        /\ \A i, j \in DOMAIN s : i < j => PathRank[s[i]] < PathRank[s[j]]

\* Object.keys(sourceHashes).sort()
SortedKeys(sourceHashes) == Sort(ObjectKeys(sourceHashes))

\* keys.map(key => sourceHashes[key]).join('')
Combined(sourceHashes, keys) == [i \in DOMAIN keys |-> sourceHashes.val[keys[i]]]

\* faulty variants of computeContentHash: the keys are not sorted; the
\* digests are combined as a set
computeContentHashUnsorted(sourceHashes) ==
    Sha256(Combined(sourceHashes, ObjectKeys(sourceHashes)))

computeContentHashOfSet(sourceHashes) ==
    Sha256({sourceHashes.val[p] : p \in DOMAIN sourceHashes.val})

computeContentHash(sourceHashes) ==
    Sha256(Combined(sourceHashes, SortedKeys(sourceHashes)))

(***************************************************************************)
(* The Pointer Store.  A pointer file is [root, dir, fp, state, body]:      *)
(* {root}/hashes/{dir}/{fp}.json, where dir is the directory that          *)
(* path.join makes of the component name and the key; state says what the  *)
(* file holds.  A key is the sequence of the segments its "/" separate.    *)
(***************************************************************************)
\* path.join normalises the path it builds: ".." removes the segment before it
RECURSIVE Normalize(_, _)
Normalize(done, rest) ==
    IF rest = <<>> THEN done
    ELSE IF Head(rest) = ".." /\ done # <<>> /\ done[Len(done)] # ".."
      THEN Normalize(SubSeq(done, 1, Len(done) - 1), Tail(rest))
      ELSE Normalize(Append(done, Head(rest)), Tail(rest))

\* path.join(componentHashDir, key), below {root}/hashes
PointerDir(ns, key) == Normalize(<<>>, <<ns>> \o key)

NoBody == [outputDir |-> NoHash, scanDir |-> <<>>, sources |-> EmptyHashes, timestamp |-> 0]

PointerFiles(P, root, ns, key, fp) ==
    {f \in P : f.root = root /\ f.dir = PointerDir(ns, key) /\ f.fp = fp}

\* faulty variant of loadPointerFile: whatever the file holds is taken for the
\* pointer of its fingerprint
loadPointerFileUnparsed(P, root, ns, key, fp) ==
    IF PointerFiles(P, root, ns, key, fp) = {}
      THEN [truthy |-> FALSE, hasOutputDir |-> FALSE, body |-> NoBody]
      ELSE [truthy |-> TRUE, hasOutputDir |-> TRUE, body |-> [NoBody EXCEPT !.outputDir = fp]]

\* loadPointerFile: the value it returns, as [truthy, hasOutputDir, body]
loadPointerFile(P, root, ns, key, fp) ==
    LET files == PointerFiles(P, root, ns, key, fp) IN
    IF files = {} THEN [truthy |-> FALSE, hasOutputDir |-> FALSE, body |-> NoBody]
    ELSE LET f == CHOOSE g \in files : TRUE IN
         CASE f.state = "valid" -> [truthy |-> TRUE, hasOutputDir |-> TRUE, body |-> f.body]
           \* JSON.parse throws: caught, null
           [] f.state = "garbage" -> [truthy |-> FALSE, hasOutputDir |-> FALSE, body |-> NoBody]
           \* the file holds the JSON text null
           [] f.state = "null" -> [truthy |-> FALSE, hasOutputDir |-> FALSE, body |-> NoBody]
           \* the file holds a JSON object without outputDir, such as {}
           [] OTHER -> [truthy |-> TRUE, hasOutputDir |-> FALSE, body |-> NoBody]

(***************************************************************************)
(* The Output Store.  A node of it is [root, fp, path, kind, data]:        *)
(* {root}/outputs/{fp}/{path}.                                             *)
(***************************************************************************)
TreeAt(O, root, fp) ==
    {[path |-> n.path, kind |-> n.kind, data |-> n.data] : n \in {m \in O : m.root = root /\ m.fp = fp}}

PutTree(O, root, fp, T) ==
    {m \in O : ~(m.root = root /\ m.fp = fp)}
      \cup {[root |-> root, fp |-> fp, path |-> n.path, kind |-> n.kind, data |-> n.data] : n \in T}

\* faulty variant of checkDirectoryHasFiles: any entry counts
checkDirectoryHasEntries(T, dirPath) == Readdir(T, dirPath) # {}

RECURSIVE checkDirectoryHasFiles(_, _)
checkDirectoryHasFiles(T, dirPath) ==
    \E entry \in Readdir(T, dirPath) :
        \/ entry.kind = "file"
        \/ entry.kind = "dir" /\ checkDirectoryHasFiles(T, entry.path)

\* faulty variant of checkOutputsExist: a directory that holds no file counts
checkOutputsExistShallow(T, outputPath) ==
    ExistsSync(T, outputPath) /\ IsDirectory(T, outputPath)

checkOutputsExist(T, outputPath) ==
    IF ~ExistsSync(T, outputPath) THEN FALSE
    ELSE IF ~IsDirectory(T, outputPath) THEN FALSE
    ELSE checkDirectoryHasFiles(T, outputPath)

\* the entries copyDirectory copies, in the order it copies them
RECURSIVE CopyPlan(_, _)
CopyPlan(T, entries) ==
    IF entries = <<>> THEN <<>>
    ELSE LET entry == Head(entries) IN
         (IF entry.kind = "dir"
            THEN <<entry>> \o CopyPlan(T, Listing(Readdir(T, entry.path)))
            ELSE <<entry>>) \o CopyPlan(T, Tail(entries))

(***************************************************************************)
(* The decision phase: the contentAggregated handler.                      *)
(***************************************************************************)
\* cacheConfig.cacheDir || DEFAULT_CACHE_DIR
CacheDirOf(o) == IF origin[o].cacheDir = "" THEN DEFAULT_CACHE_DIR ELSE origin[o].cacheDir

\* the worktree the handler determines: origin.worktree of a local origin; of
\* a remote origin the collector's checkout, when readdirSync finds one
WorktreeKnown(o) == origin[o].kind = "local" \/ wt[o].exists

\* faulty variant of EntryValid: the output directory is not asked for
EntryValidWithoutCachedir(u) ==
    unit[u].hasRun /\ unit[u].key # <<>> /\ unit[u].hasSources

\* !run || !run.key || !run.sources || !cachedir
EntryValid(u) ==
    unit[u].hasRun /\ unit[u].key # <<>> /\ unit[u].hasSources /\ unit[u].outputDir # <<>>

ScanOf(u) ==
    [i \in DOMAIN unit[u].scan |->
        [base |-> "worktree", fp |-> NoHash, dir |-> unit[u].scan[i].dir,
         files |-> unit[u].scan[i].files, into |-> unit[u].scan[i].into]]

\* the entry itself, { run, scan }
RunEntry(u) == [command |-> "run", unit |-> u, hasScan |-> unit[u].hasScan, scan |-> ScanOf(u)]

\* { run: { command: 'true' }, scan: scanConfigs }
NoopEntry(u, cacheDir, pointer) ==
    [command |-> "true", unit |-> u, hasScan |-> TRUE,
     scan |-> [i \in DOMAIN unit[u].scan |->
        [base |-> cacheDir, fp |-> pointer.body.outputDir, dir |-> unit[u].scan[i].dir,
         files |-> unit[u].scan[i].files, into |-> unit[u].scan[i].into]]]

\* an element of cacheEntries
TrackEntry(u, hasWorktree, hasHashes, sourceHashes, contentHash) ==
    [unit |-> u,
     componentName |-> origin[unit[u].origin].component,
     componentHashDir |-> CacheDirOf(unit[u].origin),
     key |-> unit[u].key,
     sources |-> unit[u].sources,
     hasWorktree |-> hasWorktree,
     outputDir |-> unit[u].outputDir,
     hasHashes |-> hasHashes,
     sourceHashes |-> sourceHashes,
     contentHash |-> contentHash]

\* faulty variants of ShouldSkip: the pointer alone is trusted; the force flag
\* is not read
ShouldSkipTrustingPointer(forceRun, pointer, cachedOutputsExist) ==
    ~forceRun /\ pointer.truthy

ShouldSkipIgnoringForce(forceRun, pointer, cachedOutputsExist) ==
    pointer.truthy /\ cachedOutputsExist

\* const shouldSkip = !forceRun && pointer && cachedOutputsExist
ShouldSkip(forceRun, pointer, cachedOutputsExist) ==
    ~forceRun /\ pointer.truthy /\ cachedOutputsExist

\* faulty variant of MissReason: the two reasons are exchanged
MissReasonExchanged(forceRun, pointer) ==
    IF forceRun THEN "FORCE_COLLECTOR=true"
    ELSE IF ~pointer.truthy THEN "cached outputs missing" ELSE "no cache entry"

\* the reason the handler logs with a cache MISS
MissReason(forceRun, pointer) ==
    IF forceRun THEN "FORCE_COLLECTOR=true"
    ELSE IF ~pointer.truthy THEN "no cache entry" ELSE "cached outputs missing"

\* path.join(playbook.dir, cacheDir, 'outputs', pointer.outputDir, outputDir)
CachedOutputsExist(O, cacheDir, pointer, outputDir) ==
    pointer.truthy /\ checkOutputsExist(TreeAt(O, cacheDir, pointer.body.outputDir), outputDir)

Outcome(outcome, reason, contentHash, push, track) ==
    [outcome |-> outcome, reason |-> reason, contentHash |-> contentHash,
     push |-> push, track |-> track]

\* the body of the entries loop for one entry, on the files P (pointers) and
\* O (outputs): what it logs, registers with the collector and tracks
DecideOn(u, forceRun, P, O) ==
    LET o == unit[u].origin
        w == wt[o]
        cacheDir == CacheDirOf(o)
    IN
    \* if (!cacheConfig) continue
    IF ~origin[o].hasConfig THEN Outcome("none", "", NoHash, <<>>, <<>>)
    ELSE IF ~EntryValid(u) THEN Outcome("skip", "invalid entry", NoHash, <<>>, <<>>)
    ELSE IF ~WorktreeKnown(o)
      THEN Outcome("miss", "no worktree", NoHash, <<RunEntry(u)>>,
                   <<TrackEntry(u, FALSE, FALSE, EmptyHashes, NoHash)>>)
    ELSE IF ~w.exists
      THEN Outcome("miss", "worktree does not exist", NoHash, <<RunEntry(u)>>,
                   <<TrackEntry(u, TRUE, FALSE, EmptyHashes, NoHash)>>)
    ELSE LET sourceHashes == computeHashes(w, unit[u].sources) IN
      IF sourceHashes.status = "throws"
        THEN Outcome("error", "error", NoHash, <<RunEntry(u)>>, <<>>)
      ELSE IF sourceHashes.status = "null"
        THEN Outcome("miss", "source files not found", NoHash, <<RunEntry(u)>>,
                     <<TrackEntry(u, TRUE, FALSE, EmptyHashes, NoHash)>>)
      ELSE LET contentHash == computeContentHash(sourceHashes.hashes)
               pointer == loadPointerFile(P, cacheDir, origin[o].component, unit[u].key, contentHash)
           IN
           \* path.join throws on pointer.outputDir === undefined
           IF pointer.truthy /\ ~pointer.hasOutputDir
             THEN Outcome("error", "error", contentHash, <<RunEntry(u)>>, <<>>)
           ELSE LET cachedOutputsExist == CachedOutputsExist(O, cacheDir, pointer, unit[u].outputDir)
                IN
                IF ShouldSkip(forceRun, pointer, cachedOutputsExist)
                  THEN Outcome("hit", "", contentHash,
                               IF unit[u].hasScan THEN <<NoopEntry(u, cacheDir, pointer)>> ELSE <<>>,
                               <<>>)
                  ELSE Outcome("miss", MissReason(forceRun, pointer), contentHash,
                               <<RunEntry(u)>>,
                               <<TrackEntry(u, TRUE, TRUE, sourceHashes.hashes, contentHash)>>)

\* the decision on the cache as it is now, with process.env as it is now
Decide(u) == DecideOn(u, env.force, ptrs, outs)

NoDecision == [outcome |-> "none", reason |-> "", contentHash |-> NoHash]
NoCollector == [o \in Origins |-> <<>>]
Idle == [at |-> "idle", fp |-> NoHash]
NoEnv == [force |-> FALSE, dryRun |-> FALSE]

\* process exit, or the end of beforePublish: the build's memory is gone
EndBuild ==
    /\ pc' = "idle"
    /\ di' = 1
    /\ ci' = 1
    /\ collector' = NoCollector
    /\ cacheEntries' = <<>>
    /\ stage' = Idle
    /\ plan' = <<>>
    /\ env' = NoEnv
    /\ decision' = [u \in Units |-> NoDecision]

\* a build starts: the site generator emits contentAggregated
StartBuild ==
    /\ pc = "idle"
    /\ builds < limit.builds
    /\ builds' = builds + 1
    /\ \E f \in BOOLEAN, d \in BOOLEAN : env' = [force |-> f, dryRun |-> d]
    /\ pc' = "decide"
    /\ di' = 1
    /\ UNCHANGED <<ibomVars, recordVars, limit, origin, unit, wt, ptrs, outs, collector, cacheEntries, decision, ci,
                   stage, plan, finished, edits>>

\* faulty variant of Evaluate: the loop body has no try, an exception leaves
\* the handler and ends the build
EvaluateWithoutCatch ==
    /\ pc = "decide"
    /\ LET u == UnitOrder[di]
           d == Decide(u)
       IN IF d.outcome = "error"
            THEN EndBuild
            ELSE /\ decision' = [decision EXCEPT ![u] =
                        [outcome |-> d.outcome, reason |-> d.reason, contentHash |-> d.contentHash]]
                 /\ collector' = [collector EXCEPT ![unit[u].origin] = @ \o d.push]
                 /\ cacheEntries' = cacheEntries \o d.track
                 /\ IF di < Len(UnitOrder)
                      THEN di' = di + 1 /\ pc' = pc
                      ELSE di' = 1 /\ pc' = "decided"
                 /\ UNCHANGED <<env, ci, stage, plan>>
    /\ UNCHANGED <<ibomVars, recordVars, limit, origin, unit, wt, ptrs, outs, finished, builds, edits>>

\* faulty variant of Evaluate: a pointer whose outputs are missing is removed
\* when the decision finds it
EvaluatePruning ==
    /\ pc = "decide"
    /\ LET u == UnitOrder[di]
           d == Decide(u)
       IN /\ decision' = [decision EXCEPT ![u] =
                 [outcome |-> d.outcome, reason |-> d.reason, contentHash |-> d.contentHash]]
          /\ collector' = [collector EXCEPT ![unit[u].origin] = @ \o d.push]
          /\ cacheEntries' = cacheEntries \o d.track
          /\ ptrs' = IF d.reason = "cached outputs missing"
                       THEN {f \in ptrs : f.fp # d.contentHash}
                       ELSE ptrs
    /\ IF di < Len(UnitOrder)
         THEN di' = di + 1 /\ pc' = pc
         ELSE di' = 1 /\ pc' = "decided"
    /\ UNCHANGED <<ibomVars, recordVars, limit, origin, unit, env, wt, outs, ci, stage, plan, finished, builds, edits>>

\* faulty variant of Evaluate: the pointer of a Miss is written as soon as the
\* Miss is decided
EvaluateCommitting ==
    /\ pc = "decide"
    /\ LET u == UnitOrder[di]
           d == Decide(u)
       IN /\ decision' = [decision EXCEPT ![u] =
                 [outcome |-> d.outcome, reason |-> d.reason, contentHash |-> d.contentHash]]
          /\ collector' = [collector EXCEPT ![unit[u].origin] = @ \o d.push]
          /\ cacheEntries' = cacheEntries \o d.track
          /\ ptrs' = IF d.track # <<>> /\ d.track[1].hasHashes
                       THEN LET entry == d.track[1]
                                f == [root |-> entry.componentHashDir,
                                      dir |-> PointerDir(entry.componentName, entry.key),
                                      fp |-> entry.contentHash, state |-> "valid",
                                      body |-> [outputDir |-> entry.contentHash,
                                                scanDir |-> entry.outputDir,
                                                sources |-> entry.sourceHashes,
                                                timestamp |-> builds]]
                            IN {g \in ptrs : ~(g.root = f.root /\ g.dir = f.dir /\ g.fp = f.fp)}
                                 \cup {f}
                       ELSE ptrs
    /\ IF di < Len(UnitOrder)
         THEN di' = di + 1 /\ pc' = pc
         ELSE di' = 1 /\ pc' = "decided"
    /\ UNCHANGED <<ibomVars, recordVars, limit, origin, unit, env, wt, outs, ci, stage, plan, finished, builds, edits>>

\* one pass of the entries loop
Evaluate ==
    /\ pc = "decide"
    /\ LET u == UnitOrder[di]
           d == Decide(u)
       IN /\ decision' = [decision EXCEPT ![u] =
                 [outcome |-> d.outcome, reason |-> d.reason, contentHash |-> d.contentHash]]
          /\ collector' = [collector EXCEPT ![unit[u].origin] = @ \o d.push]
          /\ cacheEntries' = cacheEntries \o d.track
    /\ IF di < Len(UnitOrder)
         THEN di' = di + 1 /\ pc' = pc
         ELSE di' = 1 /\ pc' = "decided"
    /\ UNCHANGED <<ibomVars, recordVars, limit, origin, unit, env, wt, ptrs, outs, ci, stage, plan, finished, builds, edits>>

\* faulty variant of AfterDecide: the handler returns without the exit
AfterDecideWithoutExit ==
    /\ pc = "decided"
    /\ pc' = "collect"
    /\ UNCHANGED <<env, di, collector, cacheEntries, decision, ci, stage, plan>>
    /\ UNCHANGED <<ibomVars, recordVars, limit, origin, unit, wt, ptrs, outs, finished, builds, edits>>

\* the end of contentAggregated: if (dryRun) process.exit(0)
AfterDecide ==
    /\ pc = "decided"
    /\ IF env.dryRun
         THEN EndBuild
         ELSE /\ pc' = "collect"
              /\ UNCHANGED <<env, di, collector, cacheEntries, decision, ci, stage, plan>>
    /\ UNCHANGED <<ibomVars, recordVars, limit, origin, unit, wt, ptrs, outs, finished, builds, edits>>

(***************************************************************************)
(* The collector extension (external): it runs the registered commands in  *)
(* the origin's worktree, which it creates for a remote origin.            *)
(***************************************************************************)
RunShapes == {"none", "empty", "deep"}

\* what a command leaves in its output directory
Produced(u, shape, gen) ==
    LET dir == unit[u].outputDir
        d == [by |-> u, gen |-> gen]
    IN  CASE shape = "empty" -> MkdirSync({}, dir)
          [] shape = "deep" -> MkdirSync({}, dir \o <<"sub">>)
                                 \cup {FileNode(dir \o <<"f">>, d),
                                       FileNode(dir \o <<"sub", "g">>, d)}
          [] OTHER -> {}

Registered(u) ==
    \E i \in DOMAIN collector[unit[u].origin] :
        /\ collector[unit[u].origin][i].unit = u
        /\ collector[unit[u].origin][i].command = "run"

Collect ==
    /\ pc = "collect"
    /\ LET u == UnitOrder[di]
           o == unit[u].origin
       IN /\ IF Registered(u)
               THEN \E shape \in RunShapes :
                      wt' = [wt EXCEPT ![o] =
                               [exists |-> TRUE, src |-> @.src,
                                tree |-> IF shape = "none" THEN @.tree
                                         ELSE RmSync(@.tree, unit[u].outputDir)
                                                \cup Produced(u, shape, builds)]]
               ELSE wt' = wt
          /\ IF di < Len(UnitOrder)
               THEN /\ di' = di + 1
                    /\ UNCHANGED <<pc, ci, stage, plan, collector, cacheEntries, env, decision>>
               \* beforePublish starts with the first tracked entry
               ELSE IF cacheEntries = <<>>
                 THEN EndBuild
                 ELSE /\ pc' = "commit"
                      /\ di' = 1
                      /\ ci' = 1
                      /\ stage' = [at |-> "start", fp |-> NoHash]
                      /\ UNCHANGED <<plan, collector, cacheEntries, env, decision>>
    /\ UNCHANGED <<ibomVars, recordVars, limit, origin, unit, ptrs, outs, finished, builds, edits>>

(***************************************************************************)
(* The commit phase: the beforePublish handler.                            *)
(***************************************************************************)
\* the for loop of beforePublish goes on with the next entry, or ends
NextEntry ==
    IF ci < Len(cacheEntries)
      THEN /\ ci' = ci + 1
           /\ stage' = [at |-> "start", fp |-> NoHash]
           /\ plan' = <<>>
           /\ UNCHANGED <<pc, di, collector, cacheEntries, env, decision>>
      ELSE EndBuild

\* faulty variant of PointerOf: the output location is named after the time
\* of the commit as well
PointerOfStamped(entry, sourceHashes, contentHash, now) ==
    [root |-> entry.componentHashDir, dir |-> PointerDir(entry.componentName, entry.key),
     fp |-> contentHash, state |-> "valid",
     body |-> [outputDir |-> <<"stamped", <<contentHash, now>>>>, scanDir |-> entry.outputDir,
               sources |-> sourceHashes, timestamp |-> now]]

\* faulty variant of PointerOf: the hashes of the sources are not recorded
PointerOfWithoutSources(entry, sourceHashes, contentHash, now) ==
    [root |-> entry.componentHashDir, dir |-> PointerDir(entry.componentName, entry.key),
     fp |-> contentHash, state |-> "valid",
     body |-> [outputDir |-> contentHash, scanDir |-> entry.outputDir,
               sources |-> EmptyHashes, timestamp |-> now]]

\* the pointer beforePublish writes
PointerOf(entry, sourceHashes, contentHash, now) ==
    [root |-> entry.componentHashDir, dir |-> PointerDir(entry.componentName, entry.key),
     fp |-> contentHash, state |-> "valid",
     body |-> [outputDir |-> contentHash, scanDir |-> entry.outputDir,
               sources |-> sourceHashes, timestamp |-> now]]

\* fs.writeFileSync(pointerPath, ...)
WritePointer(P, f) ==
    {g \in P : ~(g.root = f.root /\ g.dir = f.dir /\ g.fp = f.fp)} \cup {f}

\* const cacheDir = DEFAULT_CACHE_DIR, the root of cachedOutputPath
CommitCacheDir(entry) == DEFAULT_CACHE_DIR

\* faulty variant of CommitHashes: the sources are always hashed again
CommitHashesRecomputed(entry, w) ==
    LET h == computeHashes(w, entry.sources) IN
    [status |-> h.status, hashes |-> h.hashes,
     contentHash |-> IF h.status = "ok" THEN computeContentHash(h.hashes) ELSE NoHash]

\* the hashes the commit uses: those of the decision phase, or computed now
CommitHashes(entry, w) ==
    IF entry.hasHashes
      THEN [status |-> "ok", hashes |-> entry.sourceHashes, contentHash |-> entry.contentHash]
      ELSE LET h == computeHashes(w, entry.sources) IN
           [status |-> h.status, hashes |-> h.hashes,
            contentHash |-> IF h.status = "ok" THEN computeContentHash(h.hashes) ELSE NoHash]

\* from the top of the loop body to the call of copyDirectory
CommitStart ==
    /\ pc = "commit"
    /\ stage.at = "start"
    /\ LET entry == cacheEntries[ci]
           o == unit[entry.unit].origin
           w == wt[o]
           h == CommitHashes(entry, w)
       IN IF ~entry.hasWorktree /\ ~w.exists
            \* Worktree not found
            THEN NextEntry /\ UNCHANGED <<ptrs, outs, finished>>
          ELSE IF h.status # "ok"
            \* Source files still not found, or readFileSync throws
            THEN NextEntry /\ UNCHANGED <<ptrs, outs, finished>>
          ELSE /\ ptrs' = WritePointer(ptrs, PointerOf(entry, h.hashes, h.contentHash, builds))
               /\ IF w.exists /\ ExistsSync(w.tree, entry.outputDir)
                    THEN /\ stage' = [at |-> IF ExistsSync(TreeAt(outs, CommitCacheDir(entry), h.contentHash),
                                                          entry.outputDir)
                                             THEN "remove" ELSE "mkdir",
                                      fp |-> h.contentHash]
                         /\ UNCHANGED <<pc, di, ci, plan, collector, cacheEntries, env, decision>>
                    \* Output directory not found
                    ELSE NextEntry
               /\ UNCHANGED <<outs, finished>>
    /\ UNCHANGED <<ibomVars, recordVars, limit, origin, unit, wt, builds, edits>>

\* copyDirectory: fs.rmSync(destination)
CopyRemove ==
    /\ pc = "commit"
    /\ stage.at = "remove"
    /\ LET entry == cacheEntries[ci]
           root == CommitCacheDir(entry)
       IN outs' = PutTree(outs, root, stage.fp, RmSync(TreeAt(outs, root, stage.fp), entry.outputDir))
    /\ stage' = [stage EXCEPT !.at = "mkdir"]
    /\ UNCHANGED <<ibomVars, recordVars, limit, origin, unit, env, wt, ptrs, pc, di, collector, cacheEntries, decision,
                   ci, plan, finished, builds, edits>>

\* what a commit that ran to its end has left: the tree at its destination,
\* the live output directory it copied, and the pointer file it wrote
Finished(O, entry, fp) ==
    [unit |-> entry.unit, fp |-> fp, dir |-> entry.outputDir,
     tree |-> {n \in TreeAt(O, CommitCacheDir(entry), fp) : IsPrefix(entry.outputDir, n.path)},
     live |-> {n \in wt[unit[entry.unit].origin].tree : IsPrefix(entry.outputDir, n.path)},
     pointer |-> CHOOSE f \in ptrs :
                    /\ f.root = entry.componentHashDir
                    /\ f.dir = PointerDir(entry.componentName, entry.key)
                    /\ f.fp = fp]

\* copyDirectory: fs.mkdirSync(destination), fs.readdirSync(source)
CopyMkdir ==
    /\ pc = "commit"
    /\ stage.at = "mkdir"
    /\ LET entry == cacheEntries[ci]
           root == CommitCacheDir(entry)
           live == wt[unit[entry.unit].origin].tree
           todo == CopyPlan(live, Listing(Readdir(live, entry.outputDir)))
       IN /\ outs' = PutTree(outs, root, stage.fp,
                             MkdirSync(TreeAt(outs, root, stage.fp), entry.outputDir))
          /\ IF todo = <<>>
               THEN /\ NextEntry
                    /\ finished' = finished \cup {Finished(outs', entry, stage.fp)}
               ELSE /\ plan' = todo
                    /\ stage' = [stage EXCEPT !.at = "copy"]
                    /\ UNCHANGED <<pc, di, ci, collector, cacheEntries, finished, env, decision>>
    /\ UNCHANGED <<ibomVars, recordVars, limit, origin, unit, wt, ptrs, builds, edits>>

\* copyDirectory: one entry of the loop, a copyFileSync or the rmSync and
\* mkdirSync of the recursive call
CopyEntry ==
    /\ pc = "commit"
    /\ stage.at = "copy"
    /\ LET entry == cacheEntries[ci]
           root == CommitCacheDir(entry)
           n == Head(plan)
           T == TreeAt(outs, root, stage.fp)
       IN /\ outs' = PutTree(outs, root, stage.fp,
                             IF n.kind = "dir" THEN MkdirSync(RmSync(T, n.path), n.path)
                             ELSE CopyFileSync(T, n))
          /\ IF Tail(plan) = <<>>
               THEN /\ NextEntry
                    /\ finished' = finished \cup {Finished(outs', entry, stage.fp)}
               ELSE /\ plan' = Tail(plan)
                    /\ UNCHANGED <<pc, di, ci, stage, collector, cacheEntries, finished, env, decision>>
    /\ UNCHANGED <<ibomVars, recordVars, limit, origin, unit, wt, ptrs, builds, edits>>

\* faulty variant of CommitThrows: the loop body has no try, the exception
\* leaves the handler and the entries after this one are not committed
CommitThrowsAborting ==
    /\ pc = "commit"
    /\ edits < limit.edits
    /\ edits' = edits + 1
    /\ EndBuild
    /\ UNCHANGED <<ibomVars, recordVars, limit, origin, unit, wt, ptrs, outs, finished, builds>>

\* a file operation of the commit throws (disk full, permissions): the catch
\* of the loop body logs it and the loop goes on
CommitThrows ==
    /\ pc = "commit"
    /\ edits < limit.edits
    /\ edits' = edits + 1
    /\ NextEntry
    /\ UNCHANGED <<ibomVars, recordVars, limit, origin, unit, wt, ptrs, outs, finished, builds>>

\* the build process is killed while it commits
Kill ==
    /\ pc = "commit"
    /\ EndBuild
    /\ UNCHANGED <<ibomVars, recordVars, limit, origin, unit, wt, ptrs, outs, finished, builds, edits>>

(***************************************************************************)
(* The environment: the repository's sources change, cache files are       *)
(* removed or damaged, a checkout is removed.                              *)
(***************************************************************************)
EditSource ==
    /\ pc = "idle"
    /\ edits < limit.edits
    /\ edits' = edits + 1
    /\ \E o \in Origins, p \in SrcPaths, v \in Contents \cup {Absent, Unreadable} :
          /\ origin[o].hasConfig
          /\ wt[o].src[p] # v
          /\ wt' = [wt EXCEPT ![o].src[p] = v]
    /\ UNCHANGED <<ibomVars, recordVars, limit, origin, unit, env, ptrs, outs, pc, di, collector, cacheEntries,
                   decision, ci, stage, plan, finished, builds>>

\* a declared source file changes while the registered commands run
SourceChangesDuringRun ==
    /\ pc = "collect"
    /\ edits < limit.edits
    /\ edits' = edits + 1
    /\ \E o \in Origins, p \in SrcPaths, v \in Contents :
          /\ origin[o].hasConfig
          /\ wt[o].exists
          /\ wt[o].src[p] # v
          /\ wt' = [wt EXCEPT ![o].src[p] = v]
    /\ UNCHANGED <<ibomVars, recordVars, limit, origin, unit, env, ptrs, outs, pc, di, collector, cacheEntries,
                   decision, ci, stage, plan, finished, builds>>

RemoveWorktree ==
    /\ pc = "idle"
    /\ edits < limit.edits
    /\ edits' = edits + 1
    /\ \E o \in Origins :
          /\ origin[o].hasConfig
          /\ wt[o].exists
          /\ wt' = [wt EXCEPT ![o].exists = FALSE, ![o].tree = {}]
    /\ UNCHANGED <<ibomVars, recordVars, limit, origin, unit, env, ptrs, outs, pc, di, collector, cacheEntries,
                   decision, ci, stage, plan, finished, builds>>

RemovePointer ==
    /\ pc = "idle"
    /\ edits < limit.edits
    /\ edits' = edits + 1
    /\ \E f \in ptrs : ptrs' = ptrs \ {f}
    /\ UNCHANGED <<ibomVars, recordVars, limit, origin, unit, env, wt, outs, pc, di, collector, cacheEntries,
                   decision, ci, stage, plan, finished, builds>>

CorruptPointer ==
    /\ pc = "idle"
    /\ edits < limit.edits
    /\ edits' = edits + 1
    /\ \E f \in ptrs, st \in {"garbage", "null", "noOutputDir"} :
          /\ f.state = "valid"
          /\ ptrs' = (ptrs \ {f}) \cup {[f EXCEPT !.state = st, !.body = NoBody]}
    /\ UNCHANGED <<ibomVars, recordVars, limit, origin, unit, env, wt, outs, pc, di, collector, cacheEntries,
                   decision, ci, stage, plan, finished, builds>>

\* a directory of the Output Store is removed with all it holds
RemoveOutput ==
    /\ pc = "idle"
    /\ edits < limit.edits
    /\ edits' = edits + 1
    /\ \E n \in outs :
          /\ n.kind = "dir"
          /\ outs' = PutTree(outs, n.root, n.fp, RmSync(TreeAt(outs, n.root, n.fp), n.path))
    /\ UNCHANGED <<ibomVars, recordVars, limit, origin, unit, env, wt, ptrs, pc, di, collector, cacheEntries,
                   decision, ci, stage, plan, finished, builds>>

(***************************************************************************)
(* The iBOM tools.  The contents of an HTML file are a sequence of words;  *)
(* a path is [dir, base]: the segments of its directory and the parts of   *)
(* its file name.                                                          *)
(***************************************************************************)
NoFile == <<"ENOENT">>
Path(dir, base) == [dir |-> dir, base |-> base]
IbomPaths ==
    {Path(<<"modules", "ibom">>, <<"m", "-ibom", ".html">>),
     Path(<<"modules", "ibom">>, <<"readme", ".html">>),
     Path(<<"modules", "pcb">>, <<"n", "-ibom", ".html">>)}

StyleEnd == <<"</style>">>
\* what the generator writes: text and closing style tags
RawHtmls == UNION {[1..n -> {"text", "</style>"}] : n \in 0..MaxHtml}

\* String.prototype.includes
Includes(html, s) ==
    \E i \in 1..(Len(html) - Len(s) + 1) : SubSeq(html, i, i + Len(s) - 1) = s

\* String.prototype.replace with a string pattern: the first occurrence
Replace(html, s, by) ==
    IF ~Includes(html, s) THEN html
    ELSE LET i == CHOOSE k \in 1..(Len(html) - Len(s) + 1) :
                      /\ SubSeq(html, k, k + Len(s) - 1) = s
                      /\ \A m \in 1..(k - 1) : SubSeq(html, m, m + Len(s) - 1) # s
         IN SubSeq(html, 1, i - 1) \o by \o SubSeq(html, i + Len(s), Len(html))

\* String.prototype.endsWith, on the parts of a file name
EndsWith(base, suffix) ==
    Len(base) >= Len(suffix) /\ SubSeq(base, Len(base) - Len(suffix) + 1, Len(base)) = suffix

\* customize-ibom.js: the theme it injects and the marker it looks for
customTheme ==
    <<"\n", "/*", "Eurorack", "Docs", "UI", "Theme", "Overrides", "-", "Applied", "by",
      "customize-ibom.js", "*/", "css">>
customizeMARKER == <<"/*", "Eurorack", "Copper", "Theme", "Overrides">>

\* findIbomFiles: the files below the start path named *-ibom.html
findIbomFiles == {f \in IbomPaths : htmlFiles[f] # NoFile /\ EndsWith(f.base, <<"-ibom", ".html">>)}

\* customizeIbomFile: what it returns and what the file holds afterwards
customizeIbomFile(html) ==
    IF Includes(html, customizeMARKER) THEN [ret |-> FALSE, html |-> html]
    ELSE IF ~Includes(html, StyleEnd) THEN [ret |-> FALSE, html |-> html]
    ELSE [ret |-> TRUE, html |-> Replace(html, StyleEnd, customTheme \o <<"\n">> \o StyleEnd)]

Tools == {"main", "processor", "classify"}
NoRuns == [t \in Tools |-> 0]
RunsLeft == runs["main"] + runs["processor"] + runs["classify"] < MaxRuns

\* main of customize-ibom.js
Main ==
    /\ RunsLeft
    /\ runs' = [runs EXCEPT !["main"] = @ + 1]
    /\ htmlFiles' = [f \in IbomPaths |->
                   IF f \in findIbomFiles THEN customizeIbomFile(htmlFiles[f]).html ELSE htmlFiles[f]]
    /\ UNCHANGED <<catalog, cacheVars, recordVars>>

\* ibom-processor.js: the theme it injects and the marker it looks for
CUSTOM_THEME ==
    <<"\n", "/*", "Eurorack", "Docs", "UI", "Theme", "Overrides", "-", "Applied", "by",
      "ibom-processor", "extension", "*/", "css">>
MARKER == <<"/*", "Eurorack", "Docs", "UI", "Theme", "Overrides">>

\* attachment.src.path.includes('/ibom/') and basename.endsWith('.html')
IsIbomAttachment(f) ==
    /\ \E i \in 2..Len(f.dir) : f.dir[i] = "ibom"
    /\ EndsWith(f.base, <<".html">>)

\* faulty variant of processAttachment: no look for the marker
processAttachmentUnchecked(html) ==
    IF ~Includes(html, StyleEnd) THEN [skipped |-> TRUE, html |-> html]
    ELSE [skipped |-> FALSE,
          html |-> Replace(html, StyleEnd, CUSTOM_THEME \o <<"\n">> \o StyleEnd)]

\* the callback of forEach, for an iBOM attachment
processAttachment(html) ==
    IF Includes(html, MARKER) THEN [skipped |-> TRUE, html |-> html]
    ELSE IF ~Includes(html, StyleEnd) THEN [skipped |-> TRUE, html |-> html]
    ELSE [skipped |-> FALSE,
          html |-> Replace(html, StyleEnd, CUSTOM_THEME \o <<"\n">> \o StyleEnd)]

\* the contentClassified handler of ibom-processor
ContentClassified ==
    /\ RunsLeft
    /\ runs' = [runs EXCEPT !["processor"] = @ + 1]
    /\ catalog' = [f \in IbomPaths |->
                     IF catalog[f] # NoFile /\ IsIbomAttachment(f)
                       THEN processAttachment(catalog[f]).html ELSE catalog[f]]
    /\ UNCHANGED <<htmlFiles, cacheVars, recordVars>>

\* the site generator builds the content catalog from the files
Classify ==
    /\ RunsLeft
    /\ runs' = [runs EXCEPT !["classify"] = @ + 1]
    /\ catalog' = htmlFiles
    /\ UNCHANGED <<htmlFiles, cacheVars, recordVars>>

\* no iBOM tool runs in the behaviours of the collector cache
NoIbom ==
    /\ htmlFiles = [f \in IbomPaths |-> NoFile]
    /\ catalog = [f \in IbomPaths |-> NoFile]
    /\ runs = NoRuns

(***************************************************************************)
(* The earlier version of the cache: one hash record per key, the hash map *)
(* of the sources of the last run.                                         *)
(***************************************************************************)
\* the hash maps over the source paths: keys in any insertion order
HashMaps ==
    {obj \in [keys : UNION {[1..n -> SrcPaths] : n \in 0..Cardinality(SrcPaths)},
              val : UNION {[S -> {Sha256(c) : c \in Contents}] : S \in SUBSET SrcPaths}] :
        /\ {obj.keys[i] : i \in DOMAIN obj.keys} = DOMAIN obj.val
        /\ Len(obj.keys) = Cardinality(DOMAIN obj.val)}

\* loadHashCache: null, or cache.sources
Null == <<>>
Loaded(obj) == <<obj>>

\* faulty variant of hashesMatch: the keys are compared in insertion order
hashesMatchUnsorted(current, cached) ==
    IF cached = Null THEN FALSE
    ELSE LET currentKeys == ObjectKeys(current)
             cachedKeys == ObjectKeys(cached[1])
         IN IF Len(currentKeys) # Len(cachedKeys) THEN FALSE
            ELSE IF ~(\A i \in DOMAIN currentKeys : currentKeys[i] = cachedKeys[i]) THEN FALSE
            ELSE \A i \in DOMAIN currentKeys :
                    current.val[currentKeys[i]] = cached[1].val[currentKeys[i]]

hashesMatch(current, cached) ==
    \* if (!cached) return false
    IF cached = Null THEN FALSE
    ELSE LET currentKeys == Sort(ObjectKeys(current))
             cachedKeys == Sort(ObjectKeys(cached[1]))
         IN IF Len(currentKeys) # Len(cachedKeys) THEN FALSE
            ELSE IF ~(\A i \in DOMAIN currentKeys : currentKeys[i] = cachedKeys[i]) THEN FALSE
            ELSE \A i \in DOMAIN currentKeys :
                    current.val[currentKeys[i]] = cached[1].val[currentKeys[i]]

\* contentAggregated: the decision on one entry
DecideRecord ==
    /\ matched = "none"
    /\ matched' = IF hashesMatch(currentHashes, cachedHashes) THEN "true" ELSE "false"
    /\ UNCHANGED <<currentHashes, cachedHashes, cacheVars, ibomVars>>

\* beforePublish: updateHashCache of the entry the decision tracked
UpdateHashCache ==
    /\ matched = "false"
    /\ cachedHashes' = Loaded(currentHashes)
    /\ matched' = "none"
    /\ UNCHANGED <<currentHashes, cacheVars, ibomVars>>

\* the build ends after a Hit
EndRecordBuild ==
    /\ matched = "true"
    /\ matched' = "none"
    /\ UNCHANGED <<currentHashes, cachedHashes, cacheVars, ibomVars>>

\* between builds the sources change: their contents, the declared paths
ChangeSources ==
    /\ matched = "none"
    /\ currentHashes' \in HashMaps \ {currentHashes}
    /\ UNCHANGED <<cachedHashes, matched, cacheVars, ibomVars>>

\* between builds the hash cache file is removed
RemoveHashCache ==
    /\ matched = "none"
    /\ cachedHashes # Null
    /\ cachedHashes' = Null
    /\ UNCHANGED <<currentHashes, matched, cacheVars, ibomVars>>

\* no build of the earlier version in the other behaviours
NoRecord ==
    /\ currentHashes = EmptyHashes
    /\ cachedHashes = Null
    /\ matched = "none"

(***************************************************************************)
(* The specification.                                                      *)
(***************************************************************************)
Scan(dir) == <<[dir |-> dir, files |-> "**/*", into |-> "modules/ROOT/images"]>>

Entry(o, key, sources, outputDir) ==
    [origin |-> o, hasRun |-> TRUE, key |-> key, hasSources |-> TRUE, sources |-> sources,
     outputDir |-> outputDir, hasScan |-> TRUE, scan |-> Scan(outputDir)]

Origin(kind, hasConfig, component, cacheDir) ==
    [kind |-> kind, hasConfig |-> hasConfig, component |-> component, cacheDir |-> cacheDir]

\* the playbooks with one entry: the kind of its origin and cacheConfig.cacheDir
Playbooks ==
    {[origin |-> [o \in Origins |->
          IF o = "o1" THEN Origin(st[1], TRUE, "n1", st[2])
          ELSE Origin("local", FALSE, "n2", "")],
      unit |-> [u \in Units |->
          IF u = "u1" THEN Entry("o1", <<"k1">>, <<"b.txt", "a.txt">>, OutDir)
          ELSE Entry("o2", <<"k2">>, <<"a.txt">>, OutDir)]] :
       st \in {<<"local", "">>, <<"local", CustomCacheDir>>, <<"remote", "">>}}

\* the playbooks with two entries, of a local origin and of a remote one
\* (another component, or another version of the same component):
\* cacheConfig.cacheDir of the local origin, the component of the remote
\* origin, the key and the output directory of its entry, cacheConfig.cacheDir
\* of the remote origin
PlaybooksTwo ==
    {[origin |-> [o \in Origins |->
          IF o = "o1" THEN Origin("local", TRUE, "n1", st[1])
          ELSE Origin("remote", TRUE, st[2], st[5])],
      unit |-> [u \in Units |->
          IF u = "u1" THEN Entry("o1", <<"k1">>, <<"b.txt", "a.txt">>, OutDir)
          ELSE Entry("o2", st[3], <<"a.txt", "b.txt">>, st[4])]] :
       st \in {<<"", "n2", <<"k1">>, OutDir, "">>, <<"", "n1", <<"k2">>, SubDir, "">>,
               <<CustomCacheDir, "n1", <<"k1">>, OutDir, CustomCacheDir>>,
               <<"", "n2", <<"..", "n1", "k1">>, OutDir, "">>,
               <<"", "n1", <<"k1">>, OutDir, "">>}}

\* an entry that lacks one of run, run.key, run.sources, run.cachedir
EntryWithout(field, e) ==
    CASE field = "run" ->
           [e EXCEPT !.hasRun = FALSE, !.key = <<>>, !.hasSources = FALSE, !.sources = <<>>,
                     !.outputDir = <<>>]
      [] field = "key" -> [e EXCEPT !.key = <<>>]
      [] field = "sources" -> [e EXCEPT !.hasSources = FALSE, !.sources = <<>>]
      [] OTHER -> [e EXCEPT !.outputDir = <<>>]

\* the playbooks with two entries of one origin, one of which lacks a
\* required field: the kind of the origin, the field, the entry that lacks it
PlaybooksInvalid ==
    {[origin |-> [o \in Origins |->
          IF o = "o1" THEN Origin(st[1], TRUE, "n1", "")
          ELSE Origin("local", FALSE, "n2", "")],
      unit |-> [u \in Units |->
          LET e == IF u = "u1" THEN Entry("o1", <<"k1">>, <<"b.txt", "a.txt">>, OutDir)
                   ELSE Entry("o1", <<"k2">>, <<"a.txt">>, SubDir)
          IN  IF u = st[3] THEN EntryWithout(st[2], e) ELSE e]] :
       st \in {"local", "remote"} \X {"run", "key", "sources", "cachedir"} \X Units}

\* the state before the first build, the cache directory holding the pointer
\* files P and the output nodes O
InitFiles(pb, lim, P, O) ==
    /\ limit = lim
    /\ origin = pb.origin
    /\ unit = pb.unit
    /\ env = NoEnv
    /\ wt = [o \in Origins |->
               [exists |-> pb.origin[o].kind = "local", src |-> [p \in SrcPaths |-> "x"],
                tree |-> {}]]
    /\ ptrs = P
    /\ outs = O
    /\ pc = "idle"
    /\ di = 1
    /\ collector = NoCollector
    /\ cacheEntries = <<>>
    /\ decision = [u \in Units |-> NoDecision]
    /\ ci = 1
    /\ stage = Idle
    /\ plan = <<>>
    /\ finished = {}
    /\ builds = 0
    /\ edits = 0
    /\ NoIbom
    /\ NoRecord

InitWith(pb, lim) == InitFiles(pb, lim, {}, {})

Init == \E pb \in Playbooks : InitWith(pb, [builds |-> MaxBuilds, edits |-> MaxEdits])

InitTwo == \E pb \in PlaybooksTwo : InitWith(pb, [builds |-> MaxBuildsTwo, edits |-> MaxEditsTwo])

InitInvalid ==
    \E pb \in PlaybooksInvalid :
        InitWith(pb, [builds |-> MaxBuildsInvalid, edits |-> MaxEditsInvalid])

Next ==
    \/ StartBuild
    \/ Evaluate
    \/ AfterDecide
    \/ Collect
    \/ CommitStart
    \/ CopyRemove
    \/ CopyMkdir
    \/ CopyEntry
    \/ CommitThrows
    \/ Kill
    \/ EditSource
    \/ RemoveWorktree
    \/ RemovePointer
    \/ CorruptPointer
    \/ RemoveOutput

Spec == Init /\ [][Next]_vars

SpecTwo == InitTwo /\ [][Next]_vars

SpecInvalid == InitInvalid /\ [][Next]_vars

InitRun == \E pb \in Playbooks : InitWith(pb, [builds |-> MaxBuildsRun, edits |-> MaxEditsRun])

NextRun ==
    \/ StartBuild
    \/ Evaluate
    \/ AfterDecide
    \/ Collect
    \/ SourceChangesDuringRun
    \/ CommitStart
    \/ CopyRemove
    \/ CopyMkdir
    \/ CopyEntry
    \/ CommitThrows
    \/ Kill
    \/ EditSource
    \/ RemoveWorktree
    \/ RemovePointer
    \/ CorruptPointer
    \/ RemoveOutput

SpecRun == InitRun /\ [][NextRun]_vars

\* the playbook of the behaviours of the iBOM tools
PlaybookIbom == CHOOSE pb \in Playbooks : TRUE

\* the iBOM tools run on files as the generator wrote them
InitIbom ==
    /\ htmlFiles \in [IbomPaths -> RawHtmls \cup {NoFile}]
    /\ catalog = htmlFiles
    /\ runs = NoRuns
    /\ NoRecord
    /\ limit = [builds |-> 0, edits |-> 0]
    /\ origin = PlaybookIbom.origin
    /\ unit = PlaybookIbom.unit
    /\ env = NoEnv
    /\ wt = [o \in Origins |-> [exists |-> FALSE, src |-> [p \in SrcPaths |-> "x"], tree |-> {}]]
    /\ ptrs = {}
    /\ outs = {}
    /\ pc = "idle"
    /\ di = 1
    /\ collector = NoCollector
    /\ cacheEntries = <<>>
    /\ decision = [u \in Units |-> NoDecision]
    /\ ci = 1
    /\ stage = Idle
    /\ plan = <<>>
    /\ finished = {}
    /\ builds = 0
    /\ edits = 0

NextIbom ==
    \/ Main
    \/ ContentClassified
    \/ Classify

SpecIbom == InitIbom /\ [][NextIbom]_vars

\* the earlier version decides on any sources against any hash record
InitRecord ==
    /\ currentHashes \in HashMaps
    /\ cachedHashes \in {Null} \cup {Loaded(obj) : obj \in HashMaps}
    /\ matched = "none"
    /\ NoIbom
    /\ limit = [builds |-> 0, edits |-> 0]
    /\ origin = PlaybookIbom.origin
    /\ unit = PlaybookIbom.unit
    /\ env = NoEnv
    /\ wt = [o \in Origins |-> [exists |-> FALSE, src |-> [p \in SrcPaths |-> "x"], tree |-> {}]]
    /\ ptrs = {}
    /\ outs = {}
    /\ pc = "idle"
    /\ di = 1
    /\ collector = NoCollector
    /\ cacheEntries = <<>>
    /\ decision = [u \in Units |-> NoDecision]
    /\ ci = 1
    /\ stage = Idle
    /\ plan = <<>>
    /\ finished = {}
    /\ builds = 0
    /\ edits = 0

NextRecord ==
    \/ DecideRecord
    \/ UpdateHashCache
    \/ EndRecordBuild
    \/ ChangeSources
    \/ RemoveHashCache

SpecRecord == InitRecord /\ [][NextRecord]_vars

\* what a cache directory can hold at outputs/{fp}: out as a file or as a
\* directory, a file in it, directories below it with or without a file
StoreNodes ==
    LET d == [by |-> "u1", gen |-> 0] IN
    {DirNode(OutDir), FileNode(OutDir, d), FileNode(OutDir \o <<"f">>, d), DirNode(SubDir),
     FileNode(SubDir \o <<"g">>, d), DirNode(SubDir \o <<"sub">>)}

\* a path names one node, and what holds a node is a directory
WellFormed(T) ==
    /\ \A n \in T, m \in T : n.path = m.path => n = m
    /\ \A n \in T : Len(n.path) > 1 => IsDirectory(T, SubSeq(n.path, 1, Len(n.path) - 1))

StoreTrees == {T \in SUBSET StoreNodes : WellFormed(T)}

\* the playbook with one entry of a local origin and the default cache-dir
PlaybookStore == CHOOSE pb \in Playbooks : pb.origin["o1"] = Origin("local", TRUE, "n1", "")

\* the cache directory holds a pointer for the entry's sources as they are,
\* and some tree at the place the pointer names
InitStore ==
    \E T \in StoreTrees :
        LET pb == PlaybookStore
            e == pb.unit["u1"]
            w == [exists |-> TRUE, src |-> [p \in SrcPaths |-> "x"], tree |-> {}]
            h == computeHashes(w, e.sources).hashes
            fp == computeContentHash(h)
            f == [root |-> DEFAULT_CACHE_DIR, dir |-> PointerDir("n1", e.key), fp |-> fp,
                  state |-> "valid",
                  body |-> [outputDir |-> fp, scanDir |-> e.outputDir, sources |-> h,
                            timestamp |-> 0]]
        IN  InitFiles(pb, [builds |-> MaxBuildsStore, edits |-> MaxEditsStore],
                      {f}, PutTree({}, DEFAULT_CACHE_DIR, fp, T))

SpecStore == InitStore /\ [][Next]_vars

(***************************************************************************)
(* Vocabulary of the properties.                                           *)
(***************************************************************************)
OriginOf(u) == unit[u].origin
Configured(u) == origin[OriginOf(u)].hasConfig /\ EntryValid(u)
Declared(u) == {unit[u].sources[i] : i \in DOMAIN unit[u].sources}

\* every declared source file is there and can be read
SourcesPresent(u) ==
    wt[OriginOf(u)].exists /\ \A p \in Declared(u) : wt[OriginOf(u)].src[p] \in Contents
SourceAbsent(u) == \E p \in Declared(u) : FileAt(wt[OriginOf(u)], p) = Absent

\* the fingerprint of the declared sources as they are now
Fingerprint(u) == computeContentHash(computeHashes(wt[OriginOf(u)], unit[u].sources).hashes)

\* the files {cache-dir}/hashes/{namespace}/{key}/{fp}.json of a unit
PointersAt(u, fp) ==
    {f \in ptrs : /\ f.root = CacheDirOf(OriginOf(u))
                  /\ f.dir = PointerDir(origin[OriginOf(u)].component, unit[u].key)
                  /\ f.fp = fp}
ValidPointerAt(u, fp) == \E f \in PointersAt(u, fp) : f.state = "valid"

\* what {cache-dir}/outputs/{fp}/{outputDir} is and holds, for the cache-dir
\* of the unit's configuration
CachedAt(u, fp) ==
    {n \in outs : /\ n.root = CacheDirOf(OriginOf(u))
                  /\ n.fp = fp
                  /\ IsPrefix(unit[u].outputDir, n.path)}
Populated(u, fp) ==
    \E n \in CachedAt(u, fp) : n.kind = "file" /\ Len(n.path) > Len(unit[u].outputDir)

\* the tree at outputs/{fp}/{outputDir}, for the unit's current fingerprint
CachedTree(u) ==
    {[path |-> n.path, kind |-> n.kind, data |-> n.data] : n \in CachedAt(u, Fingerprint(u))}

\* the decision phase of the running build has evaluated the unit, and the
\* collector has not run yet
Evaluated(u) == pc \in {"decide", "decided"} /\ decision[u].outcome # "none"

\* what the decision would be now, without and with the force flag
Hit(u) == DecideOn(u, FALSE, ptrs, outs).outcome = "hit"
Forced == "FORCE_COLLECTOR=true"

(***************************************************************************)
(* C1.  A Hit is decided only if a pointer record exists under             *)
(* (namespace, key, current fingerprint) and the Output Store holds a      *)
(* non-empty tree at outputs/{fingerprint}/{outputDir}; from a state where *)
(* the decision is Hit, removing only the pointer, or only the cached      *)
(* output tree, makes the decision Miss.                                   *)
(***************************************************************************)
RemovedOnlyPointer(u) ==
    /\ PointersAt(u, Fingerprint(u)) # {}
    /\ ptrs' = ptrs \ PointersAt(u, Fingerprint(u))
    /\ UNCHANGED <<outs, wt>>

RemovedOnlyOutput(u) ==
    /\ CachedAt(u, Fingerprint(u)) # {}
    /\ outs' = outs \ CachedAt(u, Fingerprint(u))
    /\ UNCHANGED <<ptrs, wt>>

C1_HitOnlyWithPointerAndOutput ==
    /\ [](\A u \in Units, force \in BOOLEAN :
            DecideOn(u, force, ptrs, outs).outcome = "hit"
              => /\ SourcesPresent(u)
                 /\ PointersAt(u, Fingerprint(u)) # {}
                 /\ Populated(u, Fingerprint(u)))
    /\ [](\A u \in Units :
            Evaluated(u) /\ decision[u].outcome = "hit"
              => /\ decision[u].contentHash = Fingerprint(u)
                 /\ PointersAt(u, Fingerprint(u)) # {}
                 /\ Populated(u, Fingerprint(u)))
    /\ [][\A u \in Units :
            Hit(u) /\ (RemovedOnlyPointer(u) \/ RemovedOnlyOutput(u))
              => (DecideOn(u, FALSE, ptrs, outs).outcome = "miss")']_vars

\* a build has decided Hit on the output of a commit that ran to its end
C1_Witness ==
    \E u \in Units :
        /\ Evaluated(u)
        /\ decision[u].outcome = "hit"
        /\ \E t \in finished : t.fp = decision[u].contentHash /\ t.tree = CachedTree(u)

(***************************************************************************)
(* C2.  An interrupted or failed commit never leads to a Hit on incomplete *)
(* output: whenever a decision returns Hit for fingerprint F, the tree at  *)
(* outputs/F/{outputDir} is the complete tree copied by a commit that ran  *)
(* to its end.  (Stated of the decisions a build takes; refuted by a build *)
(* that follows a killed or failed commit.)                                *)
(***************************************************************************)
C2_HitOnlyOnCompleteTree ==
    \A u \in Units :
        Evaluated(u) /\ decision[u].outcome = "hit"
          => \E t \in finished :
                /\ t.fp = decision[u].contentHash
                /\ t.dir = unit[u].outputDir
                /\ t.tree = CachedTree(u)

(***************************************************************************)
(* C3.  With the force flag set, the decision for a unit is Miss with the  *)
(* reason "forced" (logged as FORCE_COLLECTOR=true) and the unit's         *)
(* original command is registered to run, even when a valid pointer and a  *)
(* populated Output Store entry exist for the unit's current fingerprint.  *)
(***************************************************************************)
ValidCache(u) ==
    /\ Configured(u)
    /\ SourcesPresent(u)
    /\ ValidPointerAt(u, Fingerprint(u))
    /\ Populated(u, Fingerprint(u))

C3_ForceOverridesValidCache ==
    \A u \in Units :
        ValidCache(u)
          => /\ LET d == DecideOn(u, TRUE, ptrs, outs) IN
                  d.outcome = "miss" /\ d.reason = Forced /\ d.push = <<RunEntry(u)>>
             /\ Evaluated(u) /\ env.force
                  => /\ decision[u].outcome = "miss"
                     /\ decision[u].reason = Forced
                     /\ Registered(u)

\* a build with the force flag has evaluated a unit whose cache entry is valid
C3_Witness ==
    \E u \in Units :
        ValidCache(u) /\ Evaluated(u) /\ env.force /\ decision[u].reason = Forced

(***************************************************************************)
(* C4.  The force flag is checked first and bypasses all other checks:     *)
(* whenever it is set the decision is Miss("forced"), whatever the state   *)
(* of the worktree, the declared sources, the pointer and the cached       *)
(* output.                                                                 *)
(***************************************************************************)
C4_ForceIsUnconditional ==
    \A u \in Units :
        Evaluated(u) /\ Configured(u) /\ env.force
          => decision[u].outcome = "miss" /\ decision[u].reason = Forced

(***************************************************************************)
(* C5.  If any declared source file of a unit is absent at evaluation      *)
(* time, the decision is Miss: the unit's command is registered to run and *)
(* no Hit is decided, whatever pointers and cached outputs exist.          *)
(***************************************************************************)
C5_MissingSourceIsMiss ==
    \A u \in Units :
        Configured(u) /\ SourceAbsent(u)
          => /\ \A force \in BOOLEAN :
                  LET d == DecideOn(u, force, ptrs, outs) IN
                  d.outcome \in {"miss", "error"} /\ d.push = <<RunEntry(u)>>
             /\ Evaluated(u)
                  => decision[u].outcome \in {"miss", "error"} /\ Registered(u)

\* a unit with a missing source has been evaluated while a pointer and cached
\* output of an earlier commit exist
C5_Witness ==
    \E u \in Units :
        /\ Evaluated(u)
        /\ wt[OriginOf(u)].exists
        /\ SourceAbsent(u)
        /\ decision[u].outcome = "miss"
        /\ \E f \in ptrs :
              f.state = "valid" /\ f.dir = PointerDir(origin[OriginOf(u)].component, unit[u].key)
        /\ \E n \in outs : n.kind = "file"

(***************************************************************************)
(* C6.  Scenario A: for a unit whose sources are all present and for which *)
(* no pointer exists, the decision is Miss("no cache entry"); after the    *)
(* unit has been run (producing non-empty output) and committed,           *)
(* re-evaluating the identical unit with unchanged sources gives Hit.      *)
(***************************************************************************)
HasFiles(T) == \E n \in T : n.kind = "file"

\* this step is the last one of a commit of the unit, which copied files
CommitCompletes(u) ==
    /\ pc = "commit"
    /\ cacheEntries[ci].unit = u
    /\ \E t \in finished' \ finished : HasFiles(t.tree)

C6_MissThenHitAfterCommit ==
    /\ [](\A u \in Units :
            Configured(u) /\ SourcesPresent(u) /\ PointersAt(u, Fingerprint(u)) = {}
              => LET d == DecideOn(u, FALSE, ptrs, outs) IN
                 d.outcome = "miss" /\ d.reason = "no cache entry")
    /\ [][\A u \in Units :
            CommitCompletes(u) /\ SourcesPresent(u)
              => (DecideOn(u, FALSE, ptrs, outs).outcome = "hit")']_vars

(***************************************************************************)
(* C7.  For every configured value of collector-cache cache-dir, the       *)
(* commit step stores a unit's cached output under                         *)
(* {cache-dir}/outputs/{fingerprint}/{outputDir}: the cache root under     *)
(* which it stores the pointer, and the location the decision step checks. *)
(***************************************************************************)
C7_OutputUnderConfiguredCacheDir ==
    [][pc = "commit"
         => \A n \in outs' \ outs :
               /\ n.root = cacheEntries[ci].componentHashDir
               /\ n.root = CacheDirOf(OriginOf(cacheEntries[ci].unit))]_vars

(***************************************************************************)
(* C8.  Scenario B: after a unit has been committed, changing the content  *)
(* of one of its declared source files makes the next decision Miss.       *)
(* As claimed, the reported reason is "source files changed"; as amended,  *)
(* with no pointer under the new fingerprint and the force flag unset, the *)
(* reported reason is "no cache entry".                                    *)
(***************************************************************************)
\* the unit was committed, and its sources have changed since: they are all
\* present and their fingerprint is another one
ChangedSinceCommit(u) ==
    /\ Configured(u)
    /\ SourcesPresent(u)
    /\ \E t \in finished : t.dir = unit[u].outputDir /\ HasFiles(t.tree) /\ t.fp # Fingerprint(u)

\* the claim as made
C8_ReasonSourceFilesChanged ==
    \A u \in Units :
        Evaluated(u) /\ ~env.force /\ ChangedSinceCommit(u)
          => decision[u].outcome = "miss" /\ decision[u].reason = "source files changed"

\* the claim as amended
C8_ReasonNoCacheEntry ==
    \A u \in Units :
        ChangedSinceCommit(u) /\ PointersAt(u, Fingerprint(u)) = {}
          => /\ LET d == DecideOn(u, FALSE, ptrs, outs) IN
                  d.outcome = "miss" /\ d.reason = "no cache entry"
             /\ Evaluated(u) /\ ~env.force
                  => decision[u].outcome = "miss" /\ decision[u].reason = "no cache entry"

\* a build has evaluated a unit whose sources changed after its commit
C8_Witness ==
    \E u \in Units :
        /\ Evaluated(u)
        /\ ~env.force
        /\ ChangedSinceCommit(u)
        /\ PointersAt(u, Fingerprint(u)) = {}
        /\ decision[u].reason = "no cache entry"

(***************************************************************************)
(* C9.  Scenario C: when a valid pointer exists for the unit's current     *)
(* fingerprint but the Output Store directory for that fingerprint has     *)
(* been deleted (or is empty), and the force flag is not set, the decision *)
(* is Miss with the reason "cached output missing" (logged as "cached      *)
(* outputs missing"), not "no cache entry".                                *)
(***************************************************************************)
PointerWithoutOutput(u) ==
    /\ Configured(u)
    /\ SourcesPresent(u)
    /\ ValidPointerAt(u, Fingerprint(u))
    /\ ~Populated(u, Fingerprint(u))

C9_PointerWithoutOutputIsMiss ==
    \A u \in Units :
        PointerWithoutOutput(u)
          => /\ LET d == DecideOn(u, FALSE, ptrs, outs) IN
                  d.outcome = "miss" /\ d.reason = "cached outputs missing"
             /\ Evaluated(u) /\ ~env.force
                  => /\ decision[u].outcome = "miss"
                     /\ decision[u].reason = "cached outputs missing"

\* a build has evaluated a unit whose cached output, copied by a commit that
\* ran to its end, was deleted afterwards
C9_Witness ==
    \E u \in Units :
        /\ Evaluated(u)
        /\ ~env.force
        /\ PointerWithoutOutput(u)
        /\ CacheDirOf(OriginOf(u)) = DEFAULT_CACHE_DIR
        /\ CachedAt(u, Fingerprint(u)) = {}
        /\ \E t \in finished : t.fp = Fingerprint(u) /\ HasFiles(t.tree)
        /\ decision[u].reason = "cached outputs missing"

(***************************************************************************)
(* C10.  Work units are independent: committing one unit never creates,    *)
(* removes or changes the pointer or the cached output tree that the       *)
(* decision of a different unit (different namespace or different key)     *)
(* reads.                                                                  *)
(***************************************************************************)
SameNamespaceAndKey(u, v) ==
    /\ origin[OriginOf(u)].component = origin[OriginOf(v)].component
    /\ unit[u].key = unit[v].key

C10_CommitLeavesOtherUnitsAlone ==
    [][pc = "commit"
         => \A u \in Units :
               /\ Configured(u)
               /\ SourcesPresent(u)
               /\ u # cacheEntries[ci].unit
               /\ ~SameNamespaceAndKey(u, cacheEntries[ci].unit)
               => /\ PointersAt(u, Fingerprint(u))' = PointersAt(u, Fingerprint(u))
                  /\ CachedAt(u, Fingerprint(u))' = CachedAt(u, Fingerprint(u))]_vars

(***************************************************************************)
(* C11.  Pointer records are scoped by namespace: a commit for (namespace  *)
(* N, key K) writes a pointer only below hashes/N/, leaves every pointer   *)
(* of every other namespace as it was, and so never creates a pointer that *)
(* the lookup of a unit of a different namespace finds.                    *)
(***************************************************************************)
Namespace(u) == origin[OriginOf(u)].component

C11_PointersScopedByNamespace ==
    [][pc = "commit"
         => LET entry == cacheEntries[ci] IN
            /\ \A f \in (ptrs' \ ptrs) \cup (ptrs \ ptrs') : f.dir[1] = entry.componentName
            /\ \A u \in Units :
                  Configured(u) /\ SourcesPresent(u) /\ Namespace(u) # entry.componentName
                    => PointersAt(u, Fingerprint(u))' = PointersAt(u, Fingerprint(u))]_vars

(***************************************************************************)
(* C12.  The units handed to the commit step are exactly the units whose   *)
(* decision was Miss: every unit whose original command the decision phase *)
(* registers to run (for whatever reason, an error caught while evaluating *)
(* it included) is tracked for commit exactly once, and no unit whose      *)
(* decision was Hit is tracked.                                            *)
(***************************************************************************)
\* how many elements of cacheEntries are of the unit
Tracked(u) == Cardinality({i \in DOMAIN cacheEntries : cacheEntries[i].unit = u})

C12_TrackedExactlyTheMisses ==
    \A u \in Units :
        Evaluated(u)
          => /\ Registered(u) <=> Tracked(u) = 1
             /\ Tracked(u) <= 1
             /\ decision[u].outcome = "hit" => Tracked(u) = 0

(***************************************************************************)
(* C13.  A malformed or corrupt pointer record is treated as NotFound: for *)
(* every content of the pointer file that is not a well-formed pointer     *)
(* (text that does not parse, the JSON value null, a JSON value without    *)
(* outputDir), evaluating the unit registers its command to run and is no  *)
(* Hit, no exception leaves the decision phase, and the remaining units    *)
(* are still evaluated.                                                    *)
(***************************************************************************)
\* the pointer file of the unit's current fingerprint holds no pointer
MalformedPointer(u) ==
    /\ Configured(u)
    /\ SourcesPresent(u)
    /\ PointersAt(u, Fingerprint(u)) # {}
    /\ ~ValidPointerAt(u, Fingerprint(u))

\* the entries loop has evaluated every configured entry
AllEvaluated == \A v \in Units : Configured(v) => decision[v].outcome # "none"

CommitReturns ==
    /\ pc = "commit"
    /\ edits' = edits
    /\ ci' # ci \/ pc' = "idle"
    /\ \/ CopyMkdir
       \/ CopyEntry
       \/ CommitStart /\ ptrs' # ptrs

C14_CompletedCommitHasOutput ==
    [][CommitReturns
         => LET entry == cacheEntries[ci]
                h == CommitHashes(entry, wt[OriginOf(entry.unit)])
            IN  \A u \in {entry.unit}, fp \in {h.contentHash} :
                    ValidPointerAt(u, fp)' /\ Populated(u, fp)']_vars

(***************************************************************************)
(* C15.  Self-healing after a killed commit: if a build is killed after    *)
(* the pointer for fingerprint F was written and before any output was     *)
(* copied, the next decision for the unit with unchanged sources is Miss   *)
(* (cached outputs missing); the unit is run and committed again, and the  *)
(* decision after that commit is Hit.                                      *)
(***************************************************************************)
\* the build is killed in the commit of the unit, its pointer written and no
\* file of its output cached
KilledBeforeCopy(u) ==
    /\ pc = "commit"
    /\ pc' = "idle"
    /\ cacheEntries[ci].unit = u
    /\ stage.at \in {"remove", "mkdir", "copy"}
    /\ UNCHANGED <<ptrs, outs, finished, edits>>
    /\ ~Populated(u, Fingerprint(u))

\* the commit of a unit that was decided Miss for its missing cached output
\* runs to its end, files copied
Recommitted(u) ==
    /\ CommitCompletes(u)
    /\ SourcesPresent(u)
    /\ decision[u].reason = "cached outputs missing"

C15_HealsAfterKilledCommit ==
    [][\A u \in Units :
          /\ KilledBeforeCopy(u) /\ SourcesPresent(u)
               => LET d == DecideOn(u, FALSE, ptrs, outs) IN
                  (d.outcome = "miss" /\ d.reason = "cached outputs missing")'
          /\ Recommitted(u) => (DecideOn(u, FALSE, ptrs, outs).outcome = "hit")']_vars

(***************************************************************************)
(* C16.  A failure in any step of committing one unit (worktree not found, *)
(* sources still missing, a pointer write or output copy that throws) only *)
(* skips that unit's cache update: the handler goes on with the entry      *)
(* after it, the commit of every other tracked unit is still attempted,    *)
(* and the handler ends only after the last tracked entry.                 *)
(***************************************************************************)
\* the commit of the entry at ci fails in this step
CommitFails ==
    \/ CommitThrows
    \/ /\ CommitStart
       /\ LET entry == cacheEntries[ci]
              w == wt[OriginOf(entry.unit)]
          IN  \/ ~entry.hasWorktree /\ ~w.exists
              \/ CommitHashes(entry, w).status # "ok"

C16_CommitFailureSkipsOnlyThatUnit ==
    /\ [](pc = "commit" => ci \in 1..Len(cacheEntries))
    /\ [][CommitFails
            => /\ ptrs' = ptrs /\ outs' = outs
               /\ IF ci < Len(cacheEntries)
                    THEN /\ pc' = "commit"
                         /\ cacheEntries' = cacheEntries
                         /\ ci' = ci + 1
                         /\ stage'.at = "start"
                    ELSE pc' = "idle"]_vars

\* the first tracked entry's commit threw, and the second entry's output is
\* being copied
C16_Witness ==
    /\ builds = 1
    /\ edits = 1
    /\ pc = "commit"
    /\ Len(cacheEntries) = 2
    /\ ci = 2
    /\ stage.at = "copy"
    /\ \A o \in Origins, p \in SrcPaths : wt[o].src[p] = "x"
    /\ decision[cacheEntries[1].unit].reason = "no cache entry"
    /\ finished = {}

(***************************************************************************)
(* C17.  Nothing in the decision phase raises an error that ends the       *)
(* build: an error while hashing the sources, loading the pointer or       *)
(* checking the cached output of a unit results in the unit's original     *)
(* command being registered to run, and the evaluation goes on with the    *)
(* remaining units.                                                        *)
(***************************************************************************)
\* evaluating the unit throws: readFileSync of a declared source, or
\* path.join on a pointer without outputDir
ThrowsWhileEvaluating(u) ==
    /\ Configured(u)
    /\ wt[OriginOf(u)].exists
    /\ LET h == computeHashes(wt[OriginOf(u)], unit[u].sources) IN
       \/ h.status = "throws"
       \/ /\ h.status = "ok"
          /\ \E f \in PointersAt(u, computeContentHash(h.hashes)) : f.state = "noOutputDir"

C17_DecisionErrorsAreMisses ==
    /\ [](\A u \in Units :
            ThrowsWhileEvaluating(u)
              => \A force \in BOOLEAN :
                    LET d == DecideOn(u, force, ptrs, outs) IN
                    d.outcome = "error" /\ d.push = <<RunEntry(u)>>)
    /\ [][pc = "decide"
            => \A u \in {UnitOrder[di]} :
                  /\ decision'[u].outcome = Decide(u).outcome
                  /\ ThrowsWhileEvaluating(u) => Registered(u)'
                  /\ IF di < Len(UnitOrder)
                       THEN pc' = "decide" /\ di' = di + 1
                       ELSE pc' = "decided"]_vars

\* the evaluation of the first entry threw, its command is registered, and
\* the second entry has been evaluated
C17_Witness ==
    /\ pc = "decided"
    /\ ThrowsWhileEvaluating(UnitOrder[1])
    /\ decision[UnitOrder[1]].outcome = "error"
    /\ Registered(UnitOrder[1])
    /\ decision[UnitOrder[2]].outcome \in {"miss", "hit"}

(***************************************************************************)
(* C18.  A unit declaration that lacks a required field (run, run.key,     *)
(* run.sources, or the output directory cache-dir) is skipped: it is       *)
(* neither registered with the collector nor tracked for commit, and every *)
(* other entry of the same configuration is still evaluated normally, both *)
(* when a worktree exists and when none exists yet.                        *)
(***************************************************************************)
MissingField(u) ==
    \/ ~unit[u].hasRun
    \/ unit[u].key = <<>>
    \/ ~unit[u].hasSources
    \/ unit[u].outputDir = <<>>

\* no entry of the collector is of the unit
Unregistered(u) ==
    \A o \in Origins : \A i \in DOMAIN collector[o] : collector[o][i].unit # u

C18_InvalidEntryIsSkipped ==
    \A u \in Units :
        origin[OriginOf(u)].hasConfig /\ MissingField(u)
          => /\ \A force \in BOOLEAN :
                  LET d == DecideOn(u, force, ptrs, outs) IN
                  d.outcome = "skip" /\ d.push = <<>> /\ d.track = <<>>
             /\ Unregistered(u)
             /\ Tracked(u) = 0
             /\ pc = "decided"
                  => \A v \in Units \ {u} :
                        OriginOf(v) = OriginOf(u) /\ ~MissingField(v)
                          => /\ decision[v].outcome \in {"hit", "miss", "error"}
                             /\ decision[v].outcome = Decide(v).outcome
                             /\ decision[v].reason = Decide(v).reason
                             /\ decision[v].outcome = "miss" => Registered(v) /\ Tracked(v) = 1

\* the first entry lacks a field and was skipped; the second entry of the
\* same configuration was evaluated, with no worktree yet or with one
C18_Witness ==
    /\ pc = "decided"
    /\ MissingField(UnitOrder[1])
    /\ decision[UnitOrder[1]].outcome = "skip"
    /\ OriginOf(UnitOrder[2]) = OriginOf(UnitOrder[1])
    /\ decision[UnitOrder[2]].reason \in {"no worktree", "no cache entry"}
    /\ Registered(UnitOrder[2])

(***************************************************************************)
(* C19.  Fingerprint determinism: for a fixed set of (path, content) pairs *)
(* the fingerprint is the same for every order in which the sources are    *)
(* declared (and so inserted into the hash set), a path declared twice     *)
(* included, and in every worktree that holds these contents.              *)
(***************************************************************************)
\* the lists of declared sources of at most MaxSources paths
SourceLists == UNION {[1..n -> SrcPaths] : n \in 0..MaxSources}
Paths(sources) == {sources[i] : i \in DOMAIN sources}

\* the fingerprint the code computes of the declared sources in a worktree
FingerprintOf(w, sources) == computeContentHash(computeHashes(w, sources).hashes)
Hashable(w, sources) == computeHashes(w, sources).status = "ok"

C19_FingerprintIgnoresOrder ==
    /\ \A o1 \in Origins, o2 \in Origins, s1 \in SourceLists, s2 \in SourceLists :
          /\ Paths(s1) = Paths(s2)
          /\ Hashable(wt[o1], s1)
          /\ Hashable(wt[o2], s2)
          /\ \A p \in Paths(s1) : FileAt(wt[o1], p) = FileAt(wt[o2], p)
          => FingerprintOf(wt[o1], s1) = FingerprintOf(wt[o2], s2)
    /\ \A u \in Units :
          Evaluated(u) /\ decision[u].outcome \in {"hit", "miss"} /\ SourcesPresent(u)
            => \A s \in SourceLists :
                  Paths(s) = Declared(u) => decision[u].contentHash = FingerprintOf(wt[OriginOf(u)], s)

\* a build has fingerprinted sources that are declared in another order than
\* the sorted one and have different contents
C19_Witness ==
    \E u \in Units :
        /\ Evaluated(u)
        /\ SourcesPresent(u)
        /\ unit[u].sources = <<"b.txt", "a.txt">>
        /\ wt[OriginOf(u)].src["a.txt"] # wt[OriginOf(u)].src["b.txt"]
        /\ decision[u].contentHash = FingerprintOf(wt[OriginOf(u)], <<"a.txt", "b.txt">>)

(***************************************************************************)
(* C20.  Fingerprint sensitivity (the digest being collision-free):        *)
(* changing the content of any one declared source file changes the        *)
(* fingerprint, and adding one declared source path, or removing one, all  *)
(* else equal, changes the fingerprint.                                    *)
(***************************************************************************)
\* the list without the path
Without(sources, p) == SelectSeq(sources, LAMBDA q : q # p)

C20_FingerprintIsSensitive ==
    \A o \in Origins, s \in SourceLists :
        Hashable(wt[o], s)
          => /\ \A p \in Paths(s) : \A c \in Contents \ {FileAt(wt[o], p)} :
                  FingerprintOf([wt[o] EXCEPT !.src[p] = c], s) # FingerprintOf(wt[o], s)
             /\ \A p \in SrcPaths \ Paths(s) :
                  Hashable(wt[o], Append(s, p))
                    => FingerprintOf(wt[o], Append(s, p)) # FingerprintOf(wt[o], s)
             /\ \A p \in Paths(s) :
                  FingerprintOf(wt[o], Without(s, p)) # FingerprintOf(wt[o], s)

\* a build has fingerprinted the sources of a unit whose content changed after
\* a commit, and the fingerprint is not the committed one
C20_Witness ==
    \E u \in Units :
        /\ Evaluated(u)
        /\ SourcesPresent(u)
        /\ decision[u].contentHash = Fingerprint(u)
        /\ \E f \in ptrs :
              /\ f.state = "valid"
              /\ f.dir = PointerDir(Namespace(u), unit[u].key)
              /\ f.body.sources.keys = unit[u].sources
              /\ f.fp # decision[u].contentHash

(***************************************************************************)
(* C21.  Idempotent commit: committing the same unit twice with unchanged  *)
(* sources and unchanged live output leaves, after the second commit, a    *)
(* cached output tree identical to the one after the first commit, and a   *)
(* pointer at the same path that is identical in every field except the    *)
(* timestamp.                                                              *)
(***************************************************************************)
\* two commits of one unit that ran to their end, of the same fingerprint and
\* the same live output
SameCommit(t1, t2) ==
    /\ t1.unit = t2.unit
    /\ t1.fp = t2.fp
    /\ t1.dir = t2.dir
    /\ t1.live = t2.live

C21_CommitIsIdempotent ==
    \A t1 \in finished, t2 \in finished :
        SameCommit(t1, t2)
          => /\ t1.tree = t2.tree
             /\ t1.pointer.root = t2.pointer.root
             /\ t1.pointer.dir = t2.pointer.dir
             /\ t1.pointer.fp = t2.pointer.fp
             /\ t1.pointer.state = t2.pointer.state
             /\ t1.pointer.body.outputDir = t2.pointer.body.outputDir
             /\ t1.pointer.body.scanDir = t2.pointer.body.scanDir
             /\ t1.pointer.body.sources = t2.pointer.body.sources

\* a unit has been committed in two builds, its sources and its live output
\* the same both times
C21_Witness ==
    \E t1 \in finished, t2 \in finished :
        /\ SameCommit(t1, t2)
        /\ HasFiles(t1.live)
        /\ t1.pointer.body.timestamp < t2.pointer.body.timestamp

(***************************************************************************)
(* C22.  On a Hit the unit's original command is not registered; a         *)
(* collector entry with a no-op command is registered instead, whose scan  *)
(* list has one entry per original scan entry, in the same order, files    *)
(* and into unchanged, and dir rewritten to the location inside the Output *)
(* Store at which the commit stored that directory of the unit's output,   *)
(* so that every rewritten dir holds the files the original dir held when  *)
(* the unit was committed.                                                 *)
(***************************************************************************)
\* the entries of the collector that are of the unit
EntriesOf(u) ==
    {collector[OriginOf(u)][i] : i \in {j \in DOMAIN collector[OriginOf(u)] :
                                            collector[OriginOf(u)][j].unit = u}}

\* what the directory dir of the tree holds
Below(T, dir) == {n \in T : IsPrefix(dir, n.path)}

C22_HitScansTheCommittedOutput ==
    \A u \in Units :
        Evaluated(u) /\ decision[u].outcome = "hit"
          => /\ ~Registered(u)
             /\ \E e \in EntriesOf(u) :
                  /\ EntriesOf(u) = {e}
                  /\ e.command = "true"
                  /\ Len(e.scan) = Len(unit[u].scan)
                  /\ \A i \in DOMAIN e.scan :
                        /\ e.scan[i].files = unit[u].scan[i].files
                        /\ e.scan[i].into = unit[u].scan[i].into
                        /\ e.scan[i].base = CacheDirOf(OriginOf(u))
                        /\ e.scan[i].fp = decision[u].contentHash
                        /\ e.scan[i].dir = unit[u].scan[i].dir
                  /\ \E t \in finished :
                        /\ t.unit = u
                        /\ t.fp = decision[u].contentHash
                        /\ \A i \in DOMAIN e.scan :
                              Below(TreeAt(outs, e.scan[i].base, e.scan[i].fp), e.scan[i].dir)
                                = Below(t.live, unit[u].scan[i].dir)

(***************************************************************************)
(* C23.  Old pointers and their outputs outlive newer commits: committing  *)
(* a unit under a new fingerprint never removes or changes the pointer or  *)
(* the cached output of an earlier fingerprint of the unit, so after       *)
(* content A was committed, the sources were changed to B and committed,   *)
(* and the sources were reverted to A, the decision is Hit.                *)
(***************************************************************************)
\* the unit was committed with its present sources, and with other sources
\* after that
RevertedToCommitted(u) ==
    /\ Configured(u)
    /\ SourcesPresent(u)
    /\ \E tA \in finished, tB \in finished :
          /\ tA.unit = u
          /\ tB.unit = u
          /\ tA.fp = Fingerprint(u)
          /\ tB.fp # tA.fp
          /\ HasFiles(tA.tree)
          /\ tA.pointer.body.timestamp < tB.pointer.body.timestamp

C23_OldFingerprintsStayCached ==
    /\ [][pc = "commit"
            => \A fp \in {CommitHashes(cacheEntries[ci], wt[OriginOf(cacheEntries[ci].unit)]).contentHash} :
                  /\ \A f \in (ptrs' \ ptrs) \cup (ptrs \ ptrs') : f.fp = fp
                  /\ \A n \in (outs' \ outs) \cup (outs \ outs') : n.fp = fp]_vars
    /\ [](\A u \in Units : RevertedToCommitted(u) => Hit(u))

(***************************************************************************)
(* C24.  Outputs are deduplicated across versions: when two origins        *)
(* (versions) of the same component declare a unit with the same key and   *)
(* output directory and their declared source files have identical         *)
(* content, once the unit has been committed for one version the decision  *)
(* for the other version is Hit and its command is not run.                *)
(***************************************************************************)
\* two units of two versions of one component: the same key, output directory,
\* cache-dir and declared paths, the declared files of identical content
SameUnitOfTwoVersions(u, v) ==
    /\ OriginOf(u) # OriginOf(v)
    /\ Configured(u) /\ Configured(v)
    /\ SameNamespaceAndKey(u, v)
    /\ unit[u].outputDir = unit[v].outputDir
    /\ CacheDirOf(OriginOf(u)) = CacheDirOf(OriginOf(v))
    /\ Declared(u) = Declared(v)
    /\ SourcesPresent(u) /\ SourcesPresent(v)
    /\ \A p \in Declared(u) : wt[OriginOf(u)].src[p] = wt[OriginOf(v)].src[p]

C24_DeduplicatedAcrossVersions ==
    [][\A u \in Units, v \in Units :
          CommitCompletes(u) /\ SameUnitOfTwoVersions(u, v)
            => LET d == DecideOn(v, FALSE, ptrs, outs) IN
               (d.outcome = "hit" /\ \A i \in DOMAIN d.push : d.push[i].command # "run")']_vars

(***************************************************************************)
(* C25.  The commit step records a unit under the fingerprint computed at  *)
(* decision time whenever hashing succeeded then (the hash set is reused,  *)
(* not recomputed, even if the source files changed while the command      *)
(* ran); the fingerprint is computed from the worktree at commit time only *)
(* when hashing was unavailable at decision time (no worktree, worktree    *)
(* path absent, or a source missing).                                      *)
(***************************************************************************)
\* the reasons of a Miss decided without hashes
Unhashed == {"no worktree", "worktree does not exist", "source files not found"}

\* this step writes the pointer of the entry at ci
WritesPointer == pc = "commit" /\ stage.at = "start" /\ ptrs' # ptrs

C25_CommitUsesDecisionFingerprint ==
    /\ [](\A i \in DOMAIN cacheEntries :
            LET entry == cacheEntries[i]
                d == decision[entry.unit]
            IN  /\ d.outcome = "miss"
                /\ entry.hasHashes <=> d.reason \notin Unhashed
                /\ entry.hasHashes <=> d.contentHash # NoHash
                /\ entry.hasHashes => entry.contentHash = d.contentHash)
    /\ [][WritesPointer
            => \A u \in {cacheEntries[ci].unit} :
                  \E f \in ptrs' \ ptrs :
                     /\ ptrs' \ ptrs = {f}
                     /\ f.fp = IF decision[u].reason \in Unhashed
                                THEN Fingerprint(u) ELSE decision[u].contentHash
                     /\ f.body.outputDir = f.fp]_vars

\* the sources of a unit changed while its command ran, and the commit has
\* written its pointer under the fingerprint of the decision
C25_Witness ==
    \E u \in Units :
        /\ pc = "commit"
        /\ cacheEntries[ci].unit = u
        /\ stage.at \in {"remove", "mkdir", "copy"}
        /\ SourcesPresent(u)
        /\ decision[u].contentHash # NoHash
        /\ decision[u].contentHash # Fingerprint(u)
        /\ stage.fp = decision[u].contentHash
        /\ ValidPointerAt(u, decision[u].contentHash)
        /\ PointersAt(u, Fingerprint(u)) = {}

(***************************************************************************)
(* C26.  The Output Store existence check returns true exactly when the    *)
(* path exists, is a directory, and contains at least one regular file at  *)
(* some depth; it returns false for a missing path, a path that is a file, *)
(* an empty directory, and a directory tree that contains only (nested)    *)
(* empty directories.                                                      *)
(***************************************************************************)
\* the paths the check is asked for
CheckedPaths == {OutDir, SubDir, OutDir \o <<"f">>, SubDir \o <<"sub">>}

\* the trees of the state: what each outputs/{fp} holds, and each worktree
TreesOfState ==
    {TreeAt(outs, n.root, n.fp) : n \in outs} \cup {wt[o].tree : o \in Origins} \cup {{}}

HoldsFileBelow(T, path) ==
    \E n \in T : n.kind = "file" /\ IsPrefix(path, n.path) /\ Len(n.path) > Len(path)

C26_ExistsIffDirectoryWithFile ==
    /\ \A T \in TreesOfState, path \in CheckedPaths :
          /\ checkOutputsExist(T, path)
                <=> ExistsSync(T, path) /\ IsDirectory(T, path) /\ HoldsFileBelow(T, path)
          /\ ~ExistsSync(T, path) => ~checkOutputsExist(T, path)
          /\ (\E n \in T : n.path = path /\ n.kind = "file") => ~checkOutputsExist(T, path)
          /\ (\A n \in T : IsPrefix(path, n.path) => n.kind = "dir") => ~checkOutputsExist(T, path)
    /\ \A u \in Units :
          Evaluated(u) /\ ~env.force /\ SourcesPresent(u) /\ ValidPointerAt(u, Fingerprint(u))
            => (decision[u].outcome = "hit"
                  <=> HoldsFileBelow(TreeAt(outs, CacheDirOf(OriginOf(u)), Fingerprint(u)),
                                     unit[u].outputDir))

\* a unit has been evaluated whose cached output directory holds directories
\* below directories and no file
C26_Witness ==
    \E u \in Units :
        /\ Evaluated(u)
        /\ ~env.force
        /\ ValidPointerAt(u, Fingerprint(u))
        /\ decision[u].reason = "cached outputs missing"
        /\ LET T == TreeAt(outs, CacheDirOf(OriginOf(u)), Fingerprint(u)) IN
              /\ IsDirectory(T, unit[u].outputDir \o <<"sub", "sub">>)
              /\ ~HasFiles(T)

(***************************************************************************)
(* C27.  Pointer well-formedness: in every reachable state, every pointer  *)
(* record written by the commit step at hashes/{namespace}/{key}/{F}.json  *)
(* has outputDir (the output location id) equal to F, and F equals the     *)
(* fingerprint of the pointer's own recorded sources hash set.             *)
(***************************************************************************)
\* the pointer files as the commit step wrote them
WrittenPointers == {f \in ptrs : f.state = "valid"}

C27_PointerWellFormed ==
    \A f \in WrittenPointers :
        /\ f.body.outputDir = f.fp
        /\ f.fp = computeContentHash(f.body.sources)

\* the commits of two builds have written two pointers of a unit, under two
\* fingerprints
C27_Witness ==
    \E f \in WrittenPointers, g \in WrittenPointers :
        /\ f.root = g.root /\ f.dir = g.dir
        /\ f.fp # g.fp
        /\ f.body.timestamp # g.body.timestamp

(***************************************************************************)
(* C28.  The fingerprint identifies the source hash set: assuming a        *)
(* collision-free digest, two source hash sets that differ as sets of      *)
(* (path, hash) pairs never have the same fingerprint, in particular when  *)
(* a declared path is replaced by a different path holding the same        *)
(* content, or when two declared files exchange contents.                  *)
(***************************************************************************)
\* the hashes object as a set of (path, hash) pairs
PairsOf(hashes) == {<<hashes.keys[i], hashes.val[hashes.keys[i]]>> : i \in DOMAIN hashes.keys}

HashSetOf(w, sources) == PairsOf(computeHashes(w, sources).hashes)

C28_FingerprintIdentifiesHashSet ==
    \A o1 \in Origins, o2 \in Origins, s1 \in SourceLists, s2 \in SourceLists :
        /\ Hashable(wt[o1], s1)
        /\ Hashable(wt[o2], s2)
        /\ HashSetOf(wt[o1], s1) # HashSetOf(wt[o2], s2)
        => FingerprintOf(wt[o1], s1) # FingerprintOf(wt[o2], s2)

(***************************************************************************)
(* C29.  The decision phase is read-only on the cache: evaluating any      *)
(* number of units (Hit, Miss, invalid entry, or error) creates, changes   *)
(* or removes no pointer record and no Output Store file; only the commit  *)
(* phase writes to the cache.                                              *)
(***************************************************************************)
DecisionPhase == pc \in {"decide", "decided"}

\* a step of the build, from its start to its end
BuildStep == pc # "idle" \/ pc' # "idle"

C29_DecisionPhaseReadsOnly ==
    /\ [][DecisionPhase => UNCHANGED <<ptrs, outs>>]_vars
    /\ [][BuildStep /\ <<ptrs, outs>>' # <<ptrs, outs>> => pc = "commit"]_vars

\* the units of a build have been evaluated against a cache that holds
\* pointers and outputs, one a Hit and one a Miss
C29_Witness ==
    /\ pc = "decided"
    /\ ptrs # {}
    /\ outs # {}
    /\ \E u \in Units, v \in Units :
          /\ decision[u].outcome = "hit"
          /\ decision[v].outcome = "miss"
          /\ decision[v].reason = "cached outputs missing"

(***************************************************************************)
(* C30.  Decisions and commits of one build are two strictly ordered       *)
(* phases: no commit of a build is performed before the decision of every  *)
(* declared unit of that build has been taken, so a decision never         *)
(* observes a pointer or output written by the same build.                 *)
(***************************************************************************)
\* the pointer files and the output files this build has written
WrittenByThisBuild ==
    {f \in ptrs : f.state = "valid" /\ f.body.timestamp = builds}
      \cup {n \in outs : n.kind = "file" /\ n.data.gen = builds}
      \cup {t \in finished : t.pointer.body.timestamp = builds}

AllDecided == \A u \in Units : origin[OriginOf(u)].hasConfig => decision[u].outcome # "none"

C30_DecisionsBeforeCommits ==
    /\ [](pc \in {"collect", "commit"} => AllDecided)
    /\ [](pc \in {"decide", "decided", "collect"} => WrittenByThisBuild = {})
    /\ [][pc # "commit" /\ pc' = "commit" => pc = "collect"]_vars
    /\ [][pc = "commit" => pc' \in {"commit", "idle"}]_vars
    /\ [][pc # "decide" /\ pc' = "decide" => pc = "idle"]_vars

\* the second build commits: it has written a pointer after it decided a Hit
\* on one unit and a Miss on another
C30_Witness ==
    /\ pc = "commit"
    /\ builds = 2
    /\ \E f \in ptrs : f.state = "valid" /\ f.body.timestamp = builds
    /\ \E f \in ptrs : f.state = "valid" /\ f.body.timestamp < builds
    /\ \E u \in Units, v \in Units :
          decision[u].outcome = "hit" /\ decision[v].outcome = "miss"

(***************************************************************************)
(* C31.  A dry run (DRY_RUN=true) evaluates every unit and then ends the   *)
(* build before the commit phase: after a dry run the Pointer Store and    *)
(* the Output Store are identical to their state before it, whatever the   *)
(* decisions were.                                                         *)
(***************************************************************************)
C31_DryRunLeavesTheCacheAlone ==
    /\ [](env.dryRun => pc \in {"decide", "decided"})
    /\ [][pc = "idle" /\ pc' = "decide" => UNCHANGED <<ptrs, outs>>]_vars
    /\ [][env.dryRun => UNCHANGED <<ptrs, outs>>]_vars
    /\ [][env.dryRun /\ pc = "decided" => AllDecided /\ pc' = "idle"]_vars

\* a dry run has evaluated its units against a cache that holds pointers and
\* outputs, one a Hit and one a Miss that would run its command
C31_Witness ==
    /\ env.dryRun
    /\ pc = "decided"
    /\ ptrs # {}
    /\ outs # {}
    /\ cacheEntries # <<>>
    /\ \E u \in Units, v \in Units :
          decision[u].outcome = "hit" /\ decision[v].outcome = "miss"

(***************************************************************************)
(* C32.  The standalone iBOM customization script is idempotent: running   *)
(* customizeIbomFile on a file it has already customized detects the       *)
(* earlier injection, returns false and leaves the file unchanged, so      *)
(* after any number of runs the theme CSS is present in the file exactly   *)
(* once.                                                                   *)
(***************************************************************************)
\* how many times the contents hold the words s
Count(html, s) ==
    Cardinality({i \in 1..(Len(html) - Len(s) + 1) : SubSeq(html, i, i + Len(s) - 1) = s})

\* the script has customized the file: its theme is in it
Customized(f) == htmlFiles[f] # NoFile /\ Includes(htmlFiles[f], customTheme)

C32_ScriptIsIdempotent ==
    /\ [](\A f \in IbomPaths : Customized(f) => Count(htmlFiles[f], customTheme) = 1)
    /\ [](\A f \in IbomPaths :
            Customized(f) => /\ ~customizeIbomFile(htmlFiles[f]).ret
                             /\ customizeIbomFile(htmlFiles[f]).html = htmlFiles[f])
    /\ [][\A f \in IbomPaths : Customized(f) => htmlFiles'[f] = htmlFiles[f]]_vars

(***************************************************************************)
(* C33.  The ibom-processor extension is idempotent per attachment: an     *)
(* iBOM HTML attachment whose contents already contain the injected theme  *)
(* is skipped and left unchanged, so processing the same catalog any       *)
(* number of times leaves the theme CSS in each iBOM attachment exactly    *)
(* once.  As amended: at most once in every attachment, and exactly once   *)
(* in the iBOM attachments that held a closing style tag and no marker     *)
(* when they were first processed.                                         *)
(***************************************************************************)
Attachments == {f \in IbomPaths : catalog[f] # NoFile /\ IsIbomAttachment(f)}

\* this step is a run of the processor on the catalog
Processes == runs'["processor"] = runs["processor"] + 1

\* the processor has customized the attachment: its theme is in it
Themed(f) == Includes(catalog[f], CUSTOM_THEME)

\* the processor customizes these contents
Customizable(html) == Includes(html, StyleEnd) /\ ~Includes(html, MARKER)

\* as claimed: after a run every iBOM attachment holds the theme once
C33_EveryAttachmentThemedOnce ==
    /\ [][Processes => \A f \in Attachments : Themed(f) => catalog'[f] = catalog[f]]_vars
    /\ [][Processes => \A f \in Attachments : Count(catalog'[f], CUSTOM_THEME) = 1]_vars

\* as amended
C33_ProcessorIsIdempotent ==
    /\ [](\A f \in IbomPaths : catalog[f] # NoFile => Count(catalog[f], CUSTOM_THEME) <= 1)
    /\ [](\A f \in Attachments :
            LET once == processAttachment(catalog[f]) IN
            /\ processAttachment(once.html).html = once.html
            /\ processAttachment(once.html).skipped
            /\ Themed(f) => once.skipped /\ once.html = catalog[f])
    /\ [][Processes => \A f \in Attachments : Themed(f) => catalog'[f] = catalog[f]]_vars
    /\ [][Processes
            => \A f \in Attachments :
                  Count(catalog'[f], CUSTOM_THEME) = 1 <=> Themed(f) \/ Customizable(catalog[f])]_vars

\* the processor has run twice on the same catalog, and an attachment holds
\* the theme
C33_Witness ==
    /\ runs["processor"] >= 2
    /\ runs["classify"] = 0
    /\ \E f \in Attachments : Themed(f) /\ Count(catalog[f], StyleEnd) = 2

(***************************************************************************)
(* C34.  In the earlier hash-record version of the cache,                  *)
(* hashesMatch(current, cached) is true exactly when cached is non-null    *)
(* and both maps have the same set of source paths with the same hash for  *)
(* every path, for all pairs of maps over a bounded set of paths and       *)
(* hashes.                                                                 *)
(***************************************************************************)
SameMap(a, b) == DOMAIN a.val = DOMAIN b.val /\ \A k \in DOMAIN a.val : a.val[k] = b.val[k]

C34_HashesMatchIffSameMap ==
    /\ hashesMatch(currentHashes, cachedHashes)
          <=> cachedHashes # Null /\ SameMap(currentHashes, cachedHashes[1])
    /\ matched = "true" => cachedHashes # Null /\ SameMap(currentHashes, cachedHashes[1])
    /\ matched = "false" => cachedHashes = Null \/ ~SameMap(currentHashes, cachedHashes[1])

\* the decision found a match of two maps that hold their paths in different
\* orders
C34_Witness ==
    /\ matched = "true"
    /\ Len(ObjectKeys(currentHashes)) = 2
    /\ ObjectKeys(currentHashes) # ObjectKeys(cachedHashes[1])

====
